---------------------------- MODULE Spec2Model ----------------------------
(***************************************************************************)
(* Model of the simulated filesystem of filesystem.c: the global           *)
(* `Filesystem fs`, the data region of the image file, the control region  *)
(* persisted at the head of the image, and one action per operation of     *)
(* the API.  The sizes of the tables are scaled down; every loop of the    *)
(* source is kept, byte by byte.  Wall-clock fields (creation_time,        *)
(* modification_time) and the log are left out: no operation reads them.   *)
(***************************************************************************)
EXTENDS Integers, Sequences, FiniteSets, TLC

(***************************************************************************)
(* Sizes (filesystem.c:19-24), scaled down.                                *)
(***************************************************************************)
NUM_BLOCKS == 4
BLOCK_SIZE == 2
NUM_INODES == 4
NUM_DIRECTORY_ENTRIES == 3
MAX_FILE_OPEN == 2

\* Longest text handed to write_file, and the deepest run of operations.
MaxText == 4
MaxSteps == 3
MaxStream == 4
MaxDeep == 6
MaxTree == 4
\* Nesting of delete_directory / copy_directory beyond which the recursion is
\* cyclic (a tree of NUM_INODES inodes is no deeper) and ends in a stack overflow.
MaxDepth == NUM_INODES + 1
\* Commands typed at the shell in one run.
MaxCommands == 3
\* Rounds of lock, load, operations, save, unlock that a process starts, and the
\* operations of one round.
MaxCycles == 2
MaxOps == 2

\* sizeof(Filesystem) in units of one int: two handles, the inode table, root_dir,
\* the directory table, the bitmap, current_dir and the open-file table.
SizeofInode == 8 + NUM_BLOCKS
SizeofDirectory == 2 * NUM_DIRECTORY_ENTRIES
SizeofFilesystem ==
    2 + NUM_INODES * SizeofInode + SizeofDirectory + NUM_INODES * SizeofDirectory
      + NUM_BLOCKS + 1 + 2 * MAX_FILE_OPEN

INODES == 0 .. NUM_INODES - 1
BLOCKS == 0 .. NUM_BLOCKS - 1
ENTRIES == 0 .. NUM_DIRECTORY_ENTRIES - 1
DESCS == 0 .. MAX_FILE_OPEN - 1

\* The image's data region holds NUM_BLOCKS*BLOCK_SIZE bytes; bytes are small
\* numbers, 0 the NUL byte.
DiskSize == NUM_BLOCKS * BLOCK_SIZE
NUL == 0
Names == {"a", "b", "c", "d"}
NoName == ""
\* A name of MAX_FILE_NAME + 1 characters, and the MAX_FILE_NAME characters
\* that strncpy(entry.filename, name, MAX_FILE_NAME) keeps of it.  strcmp of
\* the name with the stored field finds them different.
LongName == "long"
StoredName(filename) == IF filename = LongName THEN "long_cut" ELSE filename

\* The byte a one-character name is stored as (a symbolic link's target).
CharOf(n) == IF n = "a" THEN 1 ELSE IF n = "b" THEN 2 ELSE IF n = "c" THEN 5 ELSE 6

\* permissions[3]: three characters, "0" the NUL character.
PermRW == <<"r", "w", "-">>
PermRO == <<"r", "-", "-">>
PermRWX == <<"r", "w", "x">>
PermNone == <<"0", "0", "0">>

\* strncpy(dst, src, 3) into permissions[3]: the characters of src up to its
\* first NUL, padded with NUL.
RECURSIVE CLen(_, _)
CLen(s, i) == IF i > Len(s) \/ s[i] = "0" THEN i - 1 ELSE CLen(s, i + 1)
Strncpy3(src) == [i \in 1 .. 3 |-> IF i <= CLen(src, 1) THEN src[i] ELSE "0"]

FreeInode ==
    [type |-> -1, size |-> -1, permissions |-> PermNone,
     blocks |-> [b \in BLOCKS |-> -1], link_count |-> 0, inode_rep_parent |-> -1]

EmptyEntry == [filename |-> NoName, inode_index |-> -1]
\* An entry of the zero-initialised global that init_filesystem leaves alone.
ZeroEntry == [filename |-> NoName, inode_index |-> 0]
EmptyDirectory == [e \in ENTRIES |-> EmptyEntry]

FreeSlot == [inode |-> -1, tete_lecture |-> -1]
ZeroSlot == [inode |-> 0, tete_lecture |-> 0]

\* The head of an image that no save has written: a hole of zero bytes.
ZeroControl ==
    [inodes |-> [i \in INODES |->
                    [type |-> 0, size |-> 0, permissions |-> PermNone,
                     blocks |-> [b \in BLOCKS |-> 0], link_count |-> 0,
                     inode_rep_parent |-> 0]],
     directories |-> [i \in INODES |-> [e \in ENTRIES |-> ZeroEntry]],
     free_blocks |-> [b \in BLOCKS |-> 0],
     current_dir |-> 0,
     opened_file |-> [d \in DESCS |-> ZeroSlot]]

(***************************************************************************)
(* init_filesystem.  The loop over the open-file table starts at an        *)
(* uninitialised `i`: the slots below `start` keep the zeros of the        *)
(* global, the others are marked free.                                     *)
(***************************************************************************)
InitFilesystem(start) ==
    [inodes |-> [i \in INODES |->
                    IF i = 0
                    THEN [FreeInode EXCEPT !.size = 0, !.type = 0,
                                           !.inode_rep_parent = 0,
                                           !.permissions = PermRWX]
                    ELSE FreeInode],
     directories |-> [i \in INODES |->
                        IF i = 0 THEN EmptyDirectory
                        ELSE [e \in ENTRIES |-> IF e = 0 THEN ZeroEntry ELSE EmptyEntry]],
     free_blocks |-> [b \in BLOCKS |-> 0],
     current_dir |-> 0,
     opened_file |-> [d \in DESCS |-> IF d < start THEN ZeroSlot ELSE FreeSlot],
     disk |-> [p \in 0 .. DiskSize - 1 |-> NUL],
     saved |-> ZeroControl,
     saved_hit |-> FALSE,
     halted |-> "no",
     out |-> "terminal",
     printed |-> 0]

(***************************************************************************)
(* allocate_block, free_block                                              *)
(***************************************************************************)
FreeBlockSet(fb) == {b \in BLOCKS : fb[b] = 0}
Lowest(S) == CHOOSE x \in S : \A y \in S : x <= y

\* An allocator that takes the last free block instead of the first.
AllocateBlockLast(S) ==
    IF FreeBlockSet(S.free_blocks) = {}
    THEN [st |-> S, ret |-> -1]
    ELSE LET b == CHOOSE x \in FreeBlockSet(S.free_blocks) :
                     \A y \in FreeBlockSet(S.free_blocks) : y <= x
         IN  [st |-> [S EXCEPT !.free_blocks[b] = 1], ret |-> b]

AllocateBlock(S) ==
    IF FreeBlockSet(S.free_blocks) = {}
    THEN [st |-> S, ret |-> -1]
    ELSE LET b == Lowest(FreeBlockSet(S.free_blocks))
         IN  [st |-> [S EXCEPT !.free_blocks[b] = 1], ret |-> b]

FreeBlock(S, b) ==
    IF b >= 0 /\ b < NUM_BLOCKS THEN [S EXCEPT !.free_blocks[b] = 0] ELSE S

(***************************************************************************)
(* rechInode, rechEntree, has_permission                                   *)
(***************************************************************************)
RechInode(filename, dir) ==
    LET hits == {e \in ENTRIES : dir[e].filename = filename /\ dir[e].inode_index /= -1}
    IN  IF hits = {} THEN -1 ELSE dir[Lowest(hits)].inode_index

RechEntree(S, dir_inode) ==
    LET free == {e \in ENTRIES : S.directories[dir_inode][e].inode_index = -1}
    IN  IF free = {} THEN -1 ELSE Lowest(free)

\* strchr(permissions, c): c among the characters before the first NUL.
StrChr(perms, c) == \E i \in 1 .. CLen(perms, 1) : perms[i] = c

HasPermission(S, inode_index, perm) ==
    /\ inode_index >= 0
    /\ inode_index < NUM_INODES
    /\ StrChr(S.inodes[inode_index].permissions, perm)

\* The first inode with size == -1, or -1.
FirstFreeInode(S) ==
    LET free == {i \in INODES : S.inodes[i].size = -1}
    IN  IF free = {} THEN -1 ELSE Lowest(free)

\* The first entry of directory d that holds (filename, inode_index), as the
\* removal loops of delete_file, delete_directory and the moves find it.
EntryOf(S, d, filename, inode_index) ==
    LET hits == {e \in ENTRIES : /\ S.directories[d][e].inode_index = inode_index
                                 /\ S.directories[d][e].filename = filename}
    IN  IF hits = {} THEN -1 ELSE Lowest(hits)

(***************************************************************************)
(* create_file                                                             *)
(***************************************************************************)
\* A rollback that marks the inode free and keeps the block.
CreateFileNoEntryKeepsBlock(S, block, inode_index) ==
    [st |-> [S EXCEPT !.inodes[inode_index].size = -1], ret |-> -1]

\* The rollback when the directory has no free entry (filesystem.c:353-359).
CreateFileNoEntry(S, block, inode_index) ==
    [st |-> [FreeBlock(S, block) EXCEPT !.inodes[inode_index].size = -1], ret |-> -1]

CreateFile(S, filename, permissions, dir_inode) ==
    IF ~HasPermission(S, dir_inode, "w") THEN [st |-> S, ret |-> -1]
    ELSE IF RechInode(filename, S.directories[dir_inode]) /= -1 THEN [st |-> S, ret |-> -1]
    ELSE IF FirstFreeInode(S) = -1 THEN [st |-> S, ret |-> -1]
    ELSE
      LET inode_index == FirstFreeInode(S)
          S1 == [S EXCEPT !.inodes[inode_index].size = 0]
          a == AllocateBlock(S1)
          block == a.ret
          S2 == a.st
          index_rep == RechEntree(S2, dir_inode)
      IN  IF block = -1
          THEN [st |-> [S2 EXCEPT !.inodes[inode_index].size = -1], ret |-> -1]
          ELSE IF index_rep = -1
          THEN CreateFileNoEntry(S2, block, inode_index)
          ELSE [st |-> [S2 EXCEPT
                          !.directories[dir_inode][index_rep] =
                              [filename |-> StoredName(filename), inode_index |-> inode_index],
                          !.inodes[inode_index].blocks[0] = block,
                          !.inodes[inode_index].type = 1,
                          !.inodes[inode_index].inode_rep_parent = dir_inode,
                          !.inodes[inode_index].permissions = Strncpy3(permissions)],
                ret |-> inode_index]

(***************************************************************************)
(* delete_file                                                             *)
(***************************************************************************)
\* free_block on every used slot of an inode's block list.
FreeBlocksOf(S, inode_index) ==
    [S EXCEPT !.free_blocks =
                 [b \in BLOCKS |->
                    IF \E k \in BLOCKS : S.inodes[inode_index].blocks[k] = b
                    THEN 0 ELSE S.free_blocks[b]],
              !.inodes[inode_index].blocks = [k \in BLOCKS |-> -1]]

DeleteFile(S, filename, dir_inode) ==
    LET inode_index == RechInode(filename, S.directories[dir_inode])
    IN  IF inode_index = -1 THEN S
        ELSE IF S.inodes[inode_index].type /= 1 /\ S.inodes[inode_index].type /= 2 THEN S
        ELSE
          LET S1 == FreeBlocksOf(S, inode_index)
              S2 == [S1 EXCEPT !.inodes[inode_index].size = -1,
                               !.inodes[inode_index].type = -1,
                               !.inodes[inode_index].link_count = 0,
                               !.inodes[inode_index].inode_rep_parent = -1]
              e == EntryOf(S2, dir_inode, filename, inode_index)
          IN  [S2 EXCEPT !.directories[dir_inode][e] = EmptyEntry]

(***************************************************************************)
(* create_directory                                                        *)
(***************************************************************************)
CreateDirectory(S, dirname, inode_dir) ==
    LET inode_index == FirstFreeInode(S)
        index == RechEntree(S, inode_dir)
    IN  IF inode_index = -1 THEN [st |-> S, ret |-> -1]
        ELSE IF RechInode(dirname, S.directories[inode_dir]) /= -1 THEN [st |-> S, ret |-> -1]
        ELSE IF index = -1 THEN [st |-> S, ret |-> -1]
        ELSE
          LET S1 == [S EXCEPT !.inodes[inode_index] =
                                 [@ EXCEPT !.size = 0, !.type = 0,
                                           !.inode_rep_parent = inode_dir,
                                           !.permissions = PermRWX,
                                           !.link_count = 1,
                                           !.blocks = [b \in BLOCKS |-> -1]]]
              S2 == [S1 EXCEPT !.directories[inode_index] = EmptyDirectory]
          IN  [st |-> [S2 EXCEPT !.directories[inode_dir][index] =
                                    [filename |-> StoredName(dirname), inode_index |-> inode_index]],
               ret |-> inode_index]

(***************************************************************************)
(* delete_directory.  The loop over the children reads the record of the   *)
(* directory being deleted as the recursive calls leave it.  A recursion   *)
(* deeper than MaxDepth is cyclic and overflows the stack.                 *)
(***************************************************************************)
\* A finish that frees the inode of the parent in place of the directory's.
DeleteDirectoryFinishFreesParent(S, dirname, parent_dir, dir_inode) ==
    LET e == EntryOf(S, parent_dir, dirname, dir_inode)
        S1 == IF e = -1 THEN S ELSE [S EXCEPT !.directories[parent_dir][e] = EmptyEntry]
        S2 == [S1 EXCEPT !.inodes[parent_dir].size = -1,
                         !.inodes[parent_dir].type = -1,
                         !.inodes[parent_dir].inode_rep_parent = -1,
                         !.inodes[parent_dir].link_count = 0]
    IN  FreeBlocksOf(S2, parent_dir)

\* Steps 4 (second part) and 5: the entry leaves the parent, the inode is freed.
DeleteDirectoryFinish(S, dirname, parent_dir, dir_inode) ==
    LET e == EntryOf(S, parent_dir, dirname, dir_inode)
        S1 == IF e = -1 THEN S ELSE [S EXCEPT !.directories[parent_dir][e] = EmptyEntry]
        S2 == [S1 EXCEPT !.inodes[dir_inode].size = -1,
                         !.inodes[dir_inode].type = -1,
                         !.inodes[dir_inode].inode_rep_parent = -1,
                         !.inodes[dir_inode].link_count = 0]
    IN  FreeBlocksOf(S2, dir_inode)

RECURSIVE DeleteDirectory(_, _, _, _)
RECURSIVE DeleteChildren(_, _, _, _)
DeleteChildren(S, dir_inode, i, depth) ==
    IF i >= NUM_DIRECTORY_ENTRIES \/ S.halted /= "no" THEN S
    ELSE IF S.directories[dir_inode][i].inode_index = -1
    THEN DeleteChildren(S, dir_inode, i + 1, depth)
    ELSE
      LET inode == S.directories[dir_inode][i].inode_index
          S1 == IF S.inodes[inode].type = 0
                THEN DeleteDirectory(S, S.directories[dir_inode][i].filename,
                                     dir_inode, depth + 1).st
                ELSE S
          S2 == IF S1.halted = "no"
                   /\ (S1.inodes[inode].type = 1 \/ S1.inodes[inode].type = 2)
                THEN DeleteFile(S1, S1.directories[dir_inode][i].filename, dir_inode)
                ELSE S1
      IN  DeleteChildren(S2, dir_inode, i + 1, depth)

DeleteDirectory(S, dirname, parent_dir, depth) ==
    IF depth > MaxDepth THEN [st |-> [S EXCEPT !.halted = "stack_overflow"], ret |-> -1]
    ELSE
      LET dir_inode == RechInode(dirname, S.directories[parent_dir])
      IN  IF dir_inode = -1 THEN [st |-> S, ret |-> -1]
          ELSE IF S.inodes[dir_inode].type /= 0 THEN [st |-> S, ret |-> -1]
          ELSE IF ~HasPermission(S, dir_inode, "w") THEN [st |-> S, ret |-> -1]
          ELSE
            LET S1 == DeleteChildren(S, dir_inode, 0, depth)
            IN  IF S1.halted /= "no" THEN [st |-> S1, ret |-> -1]
                ELSE [st |-> DeleteDirectoryFinish(S1, dirname, parent_dir, dir_inode),
                      ret |-> 0]

(***************************************************************************)
(* move_directory, move_file, create_hard_link, change_permissions         *)
(***************************************************************************)
\* An entry (filename, inode) is added to dst at `index` and its first
\* occurrence is removed from src.
MoveEntry(S, filename, inode_index, src, dst, index) ==
    LET S1 == [S EXCEPT !.directories[dst][index] =
                           [filename |-> StoredName(filename), inode_index |-> inode_index]]
        e == EntryOf(S1, src, filename, inode_index)
    IN  IF e = -1 THEN S1 ELSE [S1 EXCEPT !.directories[src][e] = EmptyEntry]

\* A move that leaves inode_rep_parent as it was.
MoveDirectoryKeepsParent(S, srcDirName, srcParentDir, dstParentDir) ==
    LET srcDirInode == RechInode(srcDirName, S.directories[srcParentDir])
        dstIndex == RechEntree(S, dstParentDir)
    IN  IF srcDirInode = -1 THEN [st |-> S, ret |-> -1]
        ELSE IF S.inodes[srcDirInode].type /= 0 THEN [st |-> S, ret |-> -1]
        ELSE IF ~HasPermission(S, srcParentDir, "w") THEN [st |-> S, ret |-> -1]
        ELSE IF RechInode(srcDirName, S.directories[dstParentDir]) /= -1
        THEN [st |-> S, ret |-> -1]
        ELSE IF ~HasPermission(S, dstParentDir, "w") THEN [st |-> S, ret |-> -1]
        ELSE IF dstIndex = -1 THEN [st |-> S, ret |-> -1]
        ELSE [st |-> MoveEntry(S, srcDirName, srcDirInode, srcParentDir, dstParentDir,
                               dstIndex),
              ret |-> 0]

MoveDirectory(S, srcDirName, srcParentDir, dstParentDir) ==
    LET srcDirInode == RechInode(srcDirName, S.directories[srcParentDir])
        dstIndex == RechEntree(S, dstParentDir)
    IN  IF srcDirInode = -1 THEN [st |-> S, ret |-> -1]
        ELSE IF S.inodes[srcDirInode].type /= 0 THEN [st |-> S, ret |-> -1]
        ELSE IF ~HasPermission(S, srcParentDir, "w") THEN [st |-> S, ret |-> -1]
        ELSE IF RechInode(srcDirName, S.directories[dstParentDir]) /= -1
        THEN [st |-> S, ret |-> -1]
        ELSE IF ~HasPermission(S, dstParentDir, "w") THEN [st |-> S, ret |-> -1]
        ELSE IF dstIndex = -1 THEN [st |-> S, ret |-> -1]
        ELSE
          LET S1 == MoveEntry(S, srcDirName, srcDirInode, srcParentDir, dstParentDir,
                              dstIndex)
          IN  [st |-> [S1 EXCEPT !.inodes[srcDirInode].inode_rep_parent = dstParentDir],
               ret |-> 0]

\* A move of a file that also records the new parent in the inode.
MoveFileSetsParent(S, filename, inode_dir_source, inode_dir_target) ==
    LET inode_index == RechInode(filename, S.directories[inode_dir_source])
        index == RechEntree(S, inode_dir_target)
    IN  IF inode_index = -1 THEN [st |-> S, ret |-> -1]
        ELSE IF ~HasPermission(S, inode_dir_source, "w") THEN [st |-> S, ret |-> -1]
        ELSE IF RechInode(filename, S.directories[inode_dir_target]) /= -1
        THEN [st |-> S, ret |-> -1]
        ELSE IF ~HasPermission(S, inode_dir_target, "w") THEN [st |-> S, ret |-> -1]
        ELSE IF index = -1 THEN [st |-> S, ret |-> -1]
        ELSE [st |-> [MoveEntry(S, filename, inode_index, inode_dir_source,
                                inode_dir_target, index)
                         EXCEPT !.inodes[inode_index].inode_rep_parent = inode_dir_target],
              ret |-> 0]

\* move_file returns nothing; ret tells whether the entry moved.
MoveFile(S, filename, inode_dir_source, inode_dir_target) ==
    LET inode_index == RechInode(filename, S.directories[inode_dir_source])
        index == RechEntree(S, inode_dir_target)
    IN  IF inode_index = -1 THEN [st |-> S, ret |-> -1]
        ELSE IF ~HasPermission(S, inode_dir_source, "w") THEN [st |-> S, ret |-> -1]
        ELSE IF RechInode(filename, S.directories[inode_dir_target]) /= -1
        THEN [st |-> S, ret |-> -1]
        ELSE IF ~HasPermission(S, inode_dir_target, "w") THEN [st |-> S, ret |-> -1]
        ELSE IF index = -1 THEN [st |-> S, ret |-> -1]
        ELSE [st |-> MoveEntry(S, filename, inode_index, inode_dir_source,
                               inode_dir_target, index),
              ret |-> 0]

CreateHardLink(S, link_name, filename, inode_dir_source, inode_dir_target) ==
    LET inode_index == RechInode(filename, S.directories[inode_dir_source])
        index == RechEntree(S, inode_dir_target)
    IN  IF inode_index = -1 THEN [st |-> S, ret |-> -1]
        ELSE IF RechInode(link_name, S.directories[inode_dir_target]) /= -1
        THEN [st |-> S, ret |-> -1]
        ELSE IF index = -1 THEN [st |-> S, ret |-> -1]
        ELSE [st |-> [S EXCEPT !.directories[inode_dir_target][index] =
                                  [filename |-> StoredName(link_name), inode_index |-> inode_index],
                               !.inodes[inode_index].link_count = @ + 1],
              ret |-> 0]

\* What a caller may pass as the permission string: it is any C string.
ArgStrings == {PermRW, PermRO, <<"w", "-", "-">>, <<"r">>, <<"z", "w", "-">>}

ChangePermissions(S, filename, newPerms, dir_inode) ==
    LET inode_index == RechInode(filename, S.directories[dir_inode])
    IN  IF inode_index = -1 THEN [st |-> S, ret |-> -1]
        ELSE [st |-> [S EXCEPT !.inodes[inode_index].permissions = Strncpy3(newPerms)],
              ret |-> 0]

(***************************************************************************)
(* get_inode_from_path.  A path is its leading-slash flag and its tokens   *)
(* (strtok drops empty tokens and a trailing slash).  `g` carries what a   *)
(* read of memory outside `fs` returns.                                    *)
(***************************************************************************)
RECURSIVE PathWalk(_, _, _, _, _)
PathWalk(S, toks, k, inode, g) ==
    IF k > Len(toks) THEN inode
    ELSE IF toks[k] = "." THEN PathWalk(S, toks, k + 1, inode, g)
    ELSE IF toks[k] = ".."
    THEN PathWalk(S, toks, k + 1,
                  IF inode \in INODES THEN S.inodes[inode].inode_rep_parent ELSE g.idx, g)
    ELSE
      \* fs.directories[-1] is fs.root_dir, which stays empty.
      LET foundInode == IF inode \in INODES THEN RechInode(toks[k], S.directories[inode])
                        ELSE -1
      IN  IF foundInode = -1 THEN -1 ELSE PathWalk(S, toks, k + 1, foundInode, g)

GetInodeFromPath(S, path, current_dir, g) ==
    PathWalk(S, path.toks, 1, IF path.abs THEN 0 ELSE current_dir, g)

\* The characters of a path, as the bytes a symbolic link stores.
Slash == 3
Dot == 4
TokBytes(t) == IF t = ".." THEN <<Dot, Dot>> ELSE IF t = "." THEN <<Dot>> ELSE <<CharOf(t)>>
RECURSIVE JoinToks(_, _)
JoinToks(toks, k) ==
    IF k > Len(toks) THEN <<>>
    ELSE TokBytes(toks[k]) \o (IF k < Len(toks) THEN <<Slash>> ELSE <<>>)
                           \o JoinToks(toks, k + 1)
PathText(path) == (IF path.abs THEN <<Slash>> ELSE <<>>) \o JoinToks(path.toks, 1)

(***************************************************************************)
(* The image file: the data region follows the control region.  A byte is  *)
(* put at an absolute offset with fseek and fwrite.                        *)
(***************************************************************************)
BlockStart(num_block) == SizeofFilesystem + num_block * BLOCK_SIZE
ImageSize == SizeofFilesystem + DiskSize

ImagePut(S, offset, byte) ==
    IF offset >= SizeofFilesystem /\ offset < ImageSize
    THEN [S EXCEPT !.disk[offset - SizeofFilesystem] = byte]
    ELSE IF offset < SizeofFilesystem
    THEN [S EXCEPT !.saved_hit = TRUE]
    ELSE [S EXCEPT !.halted = "image_grown"]

RECURSIVE ImagePutText(_, _, _, _)
ImagePutText(S, offset, text, k) ==
    IF k > Len(text) THEN S
    ELSE ImagePutText(ImagePut(S, offset, text[k]), offset + 1, text, k + 1)

(***************************************************************************)
(* create_symbolic_link                                                    *)
(***************************************************************************)
\* sizeof(targetPath), the size of a char pointer.
SizeofCharPtr == 8

CreateSymbolicLink(S, linkName, targetPath, parentDir, g) ==
    LET symlinkInode == FirstFreeInode(S)
        dirIndex == RechEntree(S, parentDir)
        a == AllocateBlock(S)
        blockIndex == a.ret
    IN  IF RechInode(linkName, S.directories[parentDir]) /= -1 THEN [st |-> S, ret |-> -1]
        ELSE IF GetInodeFromPath(S, targetPath, parentDir, g) = -1
        THEN [st |-> S, ret |-> -1]
        ELSE IF symlinkInode = -1 THEN [st |-> S, ret |-> -1]
        ELSE IF dirIndex = -1 THEN [st |-> S, ret |-> -1]
        ELSE IF blockIndex = -1 THEN [st |-> S, ret |-> -1]
        ELSE
          LET S1 == [a.st EXCEPT !.inodes[symlinkInode] =
                                    [@ EXCEPT !.size = SizeofCharPtr + 1,
                                              !.type = 2,
                                              !.inode_rep_parent = parentDir,
                                              !.link_count = 1,
                                              !.permissions = PermRWX,
                                              !.blocks = [b \in BLOCKS |->
                                                 IF b = 0 THEN blockIndex ELSE -1]]]
              S2 == ImagePutText(S1, BlockStart(blockIndex),
                                 PathText(targetPath) \o <<NUL>>, 1)
          IN  [st |-> [S2 EXCEPT !.directories[parentDir][dirIndex] =
                                    [filename |-> StoredName(linkName), inode_index |-> symlinkInode]],
               ret |-> symlinkInode]

(***************************************************************************)
(* open_file, close_file                                                   *)
(***************************************************************************)
\* An open_file that leaves the cursor where the slot had it.
OpenFileKeepsCursor(S, filename, dir_inode) ==
    LET inode == RechInode(filename, S.directories[dir_inode])
        free == {d \in DESCS : S.opened_file[d].inode = -1}
    IN  IF inode = -1 THEN [st |-> S, ret |-> -1]
        ELSE IF S.inodes[inode].type /= 1 /\ S.inodes[inode].type /= 2
        THEN [st |-> S, ret |-> -1]
        ELSE IF free = {} THEN [st |-> S, ret |-> -1]
        ELSE LET desc == Lowest(free)
             IN  [st |-> [S EXCEPT !.opened_file[desc].inode = inode], ret |-> desc]

OpenFile(S, filename, dir_inode) ==
    LET inode == RechInode(filename, S.directories[dir_inode])
        free == {d \in DESCS : S.opened_file[d].inode = -1}
    IN  IF inode = -1 THEN [st |-> S, ret |-> -1]
        ELSE IF S.inodes[inode].type /= 1 /\ S.inodes[inode].type /= 2
        THEN [st |-> S, ret |-> -1]
        ELSE IF free = {} THEN [st |-> S, ret |-> -1]
        ELSE LET desc == Lowest(free)
             IN  [st |-> [S EXCEPT !.opened_file[desc] =
                                      [inode |-> inode,
                                       tete_lecture |->
                                           BlockStart(S.inodes[inode].blocks[0])]],
                  ret |-> desc]

\* The descriptor test of write_file, read_file, close_file and seek_file:
\* desc == MAX_FILE_OPEN passes `desc > MAX_FILE_OPEN` and reads the slot past
\* the table, whose inode is g.idx.
\* The slot whose inode the test reads, -1 when `desc > MAX_FILE_OPEN ||
\* desc < 0` has settled it before the slot is looked at.
TestedSlot(desc) == IF desc > MAX_FILE_OPEN \/ desc < 0 THEN -1 ELSE desc
SlotInode(S, desc, g) == IF desc \in DESCS THEN S.opened_file[desc].inode ELSE g.idx
InvalidDesc(S, desc, g) ==
    desc > MAX_FILE_OPEN \/ desc < 0 \/ SlotInode(S, desc, g) = -1

CloseFile(S, desc, g) ==
    IF InvalidDesc(S, desc, g) THEN S
    ELSE IF desc \in DESCS THEN [S EXCEPT !.opened_file[desc] = FreeSlot]
    ELSE [S EXCEPT !.halted = "wrote_past_fs"]

(***************************************************************************)
(* The block list as the stream loops index it.  blocks[NUM_BLOCKS] and    *)
(* blocks[NUM_BLOCKS+1] are the inode's next fields, link_count and        *)
(* inode_rep_parent; blocks[-1] is the int that holds permissions[3] and   *)
(* its padding byte.  Further out the model stops.                         *)
(***************************************************************************)
CharCode(c) ==
    IF c = "r" THEN 114 ELSE IF c = "w" THEN 119 ELSE IF c = "x" THEN 120
    ELSE IF c = "-" THEN 45 ELSE 0
PermsAsInt(perms) ==
    CharCode(perms[1]) + 256 * CharCode(perms[2]) + 65536 * CharCode(perms[3])

Unmodelled == -2
BlockAt(S, inode, block_index) ==
    IF block_index \in BLOCKS THEN S.inodes[inode].blocks[block_index]
    ELSE IF block_index = NUM_BLOCKS THEN S.inodes[inode].link_count
    ELSE IF block_index = NUM_BLOCKS + 1 THEN S.inodes[inode].inode_rep_parent
    ELSE IF block_index = -1 THEN PermsAsInt(S.inodes[inode].permissions)
    ELSE Unmodelled

\* The assignment blocks[block_index] = v, where BlockAt can read.
BlockPut(S, inode, block_index, v) ==
    IF block_index \in BLOCKS THEN [S EXCEPT !.inodes[inode].blocks[block_index] = v]
    ELSE IF block_index = NUM_BLOCKS THEN [S EXCEPT !.inodes[inode].link_count = v]
    ELSE IF block_index = NUM_BLOCKS + 1 THEN [S EXCEPT !.inodes[inode].inode_rep_parent = v]
    ELSE S

\* The index of the block of the inode's list that holds the cursor, or -1:
\* the search of write_file, read_file and seek_file.
InBlock(num_block, lecteur) ==
    BlockStart(num_block) <= lecteur /\ lecteur < BlockStart(num_block + 1)
FindBlock(S, inode, lecteur) ==
    LET hits == {i \in BLOCKS : InBlock(S.inodes[inode].blocks[i], lecteur)}
    IN  IF hits = {} THEN -1 ELSE Lowest(hits)

\* The loops of write_file, read_file and seek_file stay in a block while
\* lecteur <= sizeof(Filesystem) + (num_block+1)*BLOCK_SIZE.
StaysInBlock(lecteur, num_block) == lecteur <= BlockStart(num_block + 1)

(***************************************************************************)
(* write_file.  W is the state of the loops: the filesystem, j, lecteur,   *)
(* texte_tmp[0] (prev) and maj_size.                                       *)
(***************************************************************************)
\* fseek, fread of one byte, fseek(-1, SEEK_CUR), fwrite of one byte.  At the
\* end of the image fread reads nothing: texte_tmp keeps its byte and the
\* write lands one byte back.
WriteByte(W, inode, byte, g) ==
    LET atEnd == W.lecteur >= ImageSize
        old == IF atEnd THEN W.prev
               ELSE IF W.lecteur < SizeofFilesystem THEN g.byte
               ELSE W.S.disk[W.lecteur - SizeofFilesystem]
        S1 == IF old = NUL
              THEN [W.S EXCEPT !.inodes[inode].size = @ + 1]
              ELSE W.S
        S2 == ImagePut(S1, IF atEnd THEN W.lecteur - 1 ELSE W.lecteur, byte)
    IN  [S |-> S2, j |-> W.j + 1, lecteur |-> W.lecteur + 1, prev |-> old,
         maj |-> IF old = NUL THEN W.maj + 1 ELSE W.maj]

RECURSIVE WriteRun(_, _, _, _, _)
WriteRun(W, inode, texte, num_block, g) ==
    IF W.j < Len(texte) /\ StaysInBlock(W.lecteur, num_block) /\ W.S.halted = "no"
    THEN WriteRun(WriteByte(W, inode, texte[W.j + 1], g), inode, texte, num_block, g)
    ELSE W

RECURSIVE WriteBlocks(_, _, _, _, _)
WriteBlocks(W, inode, texte, block_index, g) ==
    IF ~(W.j < Len(texte)) \/ W.S.halted /= "no" THEN W
    ELSE
      LET bi == block_index + 1
          listed == BlockAt(W.S, inode, bi)
          a == AllocateBlock(W.S)
          num_block == IF listed = -1 THEN a.ret ELSE listed
          S1 == IF listed = -1 THEN BlockPut(a.st, inode, bi, num_block) ELSE W.S
      IN  IF listed = Unmodelled THEN [W EXCEPT !.S.halted = "unmodelled"]
          ELSE IF num_block = -1 THEN [W EXCEPT !.S = S1]
          ELSE WriteBlocks(WriteRun([W EXCEPT !.S = S1, !.lecteur = BlockStart(num_block)],
                                    inode, texte, num_block, g),
                           inode, texte, bi, g)

\* The sizes of the parents: id_rep_parent follows inode_rep_parent until it is
\* 0.  inodes[-1] lies outside fs: the read of its parent field gives g.idx, or
\* the process dies (g.idx = -1).  A chain that never reaches 0 never ends.
RECURSIVE ParentWalk(_, _, _, _, _)
ParentWalk(S, id, maj_size, fuel, g) ==
    IF id = 0 THEN S
    ELSE IF fuel = 0 THEN [S EXCEPT !.halted = "hang"]
    ELSE
      LET p == IF id \in INODES THEN S.inodes[id].inode_rep_parent ELSE g.idx
      IN  IF p \in INODES
          THEN ParentWalk([S EXCEPT !.inodes[p].size = @ + maj_size], p, maj_size,
                          fuel - 1, g)
          ELSE IF id \in INODES THEN ParentWalk(S, p, maj_size, fuel - 1, g)
          ELSE [S EXCEPT !.halted = "crash"]

WriteFile(S, desc, texte, g) ==
    IF InvalidDesc(S, desc, g) THEN [st |-> S, ret |-> -1]
    ELSE IF desc \notin DESCS THEN [st |-> [S EXCEPT !.halted = "unmodelled"], ret |-> -1]
    ELSE
      LET inode == S.opened_file[desc].inode
          lecteur == S.opened_file[desc].tete_lecture
          block_index == FindBlock(S, inode, lecteur)
      IN  IF ~HasPermission(S, inode, "w") THEN [st |-> S, ret |-> -1]
          ELSE IF S.inodes[inode].type /= 1 THEN [st |-> S, ret |-> -1]
          ELSE IF block_index = -1 THEN [st |-> S, ret |-> -1]
          ELSE
            LET W0 == [S |-> S, j |-> 0, lecteur |-> lecteur, prev |-> NUL, maj |-> 0]
                W1 == WriteRun(W0, inode, texte, S.inodes[inode].blocks[block_index], g)
                W2 == WriteBlocks(W1, inode, texte, block_index, g)
                S3 == IF W2.S.halted = "no"
                      THEN ParentWalk(W2.S, inode, W2.maj, 2 * NUM_INODES + 2, g)
                      ELSE W2.S
            IN  [st |-> [S3 EXCEPT !.opened_file[desc].tete_lecture = W2.lecteur],
                 ret |-> W2.maj]

(***************************************************************************)
(* read_file.  R is the state of the loops: j, lecteur and the caller's    *)
(* buffer, which starts as the caller left it (g.byte: never written).     *)
(***************************************************************************)
\* fseek and fread of one byte into texte[j]; past the end of the image fread
\* reads nothing, inside the control region it reads a byte of the saved struct.
ReadByte(S, R, g) ==
    LET got == IF R.lecteur >= ImageSize THEN R.buf[R.j + 1]
               ELSE IF R.lecteur < SizeofFilesystem THEN g.byte
               ELSE S.disk[R.lecteur - SizeofFilesystem]
    IN  [j |-> R.j + 1, lecteur |-> R.lecteur + 1, buf |-> [R.buf EXCEPT ![R.j + 1] = got]]

RECURSIVE ReadRun(_, _, _, _)
ReadRun(S, R, num_block, g) ==
    IF R.j < Len(R.buf) /\ StaysInBlock(R.lecteur, num_block)
    THEN ReadRun(S, ReadByte(S, R, g), num_block, g)
    ELSE R

RECURSIVE ReadBlocks(_, _, _, _, _)
ReadBlocks(S, R, inode, block_index, g) ==
    IF ~(R.j < Len(R.buf)) THEN R
    ELSE
      LET num_block == BlockAt(S, inode, block_index + 1)
      IN  IF num_block = -1 THEN R
          ELSE IF num_block = Unmodelled THEN [R EXCEPT !.lecteur = Unmodelled]
          ELSE ReadBlocks(S, ReadRun(S, [R EXCEPT !.lecteur = BlockStart(num_block)],
                                     num_block, g),
                          inode, block_index + 1, g)

\* st: the filesystem afterwards; buf: texte[0..size-1]; done: whether the
\* loops ran (texte[size] is then set to NUL).
ReadFile(S, desc, size, g) ==
    LET untouched == [st |-> S,
                      buf |-> IF size > 0 THEN [k \in 1 .. size |-> g.byte] ELSE <<>>,
                      done |-> FALSE]
    IN  IF InvalidDesc(S, desc, g) THEN untouched
        ELSE IF desc \notin DESCS
        THEN [untouched EXCEPT !.st = [S EXCEPT !.halted = "unmodelled"]]
        ELSE
          LET inode == S.opened_file[desc].inode
              lecteur == S.opened_file[desc].tete_lecture
              block_index == FindBlock(S, inode, lecteur)
          IN  IF S.inodes[inode].type /= 1 /\ S.inodes[inode].type /= 2 THEN untouched
              ELSE IF ~HasPermission(S, inode, "r") THEN untouched
              ELSE IF block_index = -1 THEN [untouched EXCEPT !.done = TRUE]
              ELSE
                LET R0 == [j |-> 0, lecteur |-> lecteur, buf |-> untouched.buf]
                    R1 == ReadRun(S, R0, S.inodes[inode].blocks[block_index], g)
                    R2 == ReadBlocks(S, R1, inode, block_index, g)
                IN  [st |-> IF R2.lecteur = Unmodelled
                            THEN [S EXCEPT !.halted = "unmodelled"]
                            ELSE [S EXCEPT !.opened_file[desc].tete_lecture = R2.lecteur],
                     buf |-> R2.buf, done |-> TRUE]

(***************************************************************************)
(* seek_file                                                               *)
(***************************************************************************)
\* The walk shared by the three cases: from block_index on, each listed block
\* sets lecteur to its start and takes up to BLOCK_SIZE+1 steps of `todo`.
Min(a, b) == IF a <= b THEN a ELSE b
SeekSteps(todo) == Min(todo, BLOCK_SIZE + 1)

RECURSIVE SeekWalk(_, _, _, _, _)
SeekWalk(S, inode, todo, lecteur, block_index) ==
    IF todo <= 0 THEN lecteur
    ELSE
      LET num_block == BlockAt(S, inode, block_index)
      IN  IF num_block = -1 THEN lecteur
          ELSE IF num_block = Unmodelled THEN Unmodelled
          ELSE SeekWalk(S, inode, todo - SeekSteps(todo),
                        BlockStart(num_block) + SeekSteps(todo), block_index + 1)

SeekFile(S, desc, offset, whence, g) ==
    IF InvalidDesc(S, desc, g) THEN S
    ELSE IF desc \notin DESCS THEN [S EXCEPT !.halted = "unmodelled"]
    ELSE IF offset < 0 THEN S
    ELSE
      LET inode == S.opened_file[desc].inode
          start == BlockStart(S.inodes[inode].blocks[0])
          lecteur == S.opened_file[desc].tete_lecture
          to == IF whence = 0 THEN SeekWalk(S, inode, offset, start, 0)
                ELSE IF whence = 2
                THEN SeekWalk(S, inode, offset, lecteur, FindBlock(S, inode, lecteur))
                ELSE IF whence = 1
                THEN SeekWalk(S, inode, S.inodes[inode].size - offset, start, 0)
                ELSE lecteur
      IN  IF to = Unmodelled THEN [S EXCEPT !.halted = "unmodelled"]
          ELSE [S EXCEPT !.opened_file[desc].tete_lecture = to]

(***************************************************************************)
(* copy_file.  read_file sets texte[size], one byte past `char             *)
(* content[size]`: where the array ends on a 16-byte boundary that byte    *)
(* belongs to another object of the frame, and g.smash tells whether the   *)
(* process survives it; so it does for an array of negative size (the      *)
(* source's inode is free).                                                *)
(***************************************************************************)
VlaAlign == 16

CopyFile(S, filename, newname, inode_dir_source, inode_dir_target, g) ==
    LET source_inode_index == RechInode(filename, S.directories[inode_dir_source])
    IN  IF source_inode_index = -1 THEN [st |-> S, ret |-> -1]
        ELSE IF ~HasPermission(S, source_inode_index, "r") THEN [st |-> S, ret |-> -1]
        ELSE IF ~HasPermission(S, inode_dir_target, "w") THEN [st |-> S, ret |-> -1]
        ELSE IF RechInode(newname, S.directories[inode_dir_target]) /= -1
        THEN [st |-> S, ret |-> -1]
        ELSE
          LET c == CreateFile(S, newname, S.inodes[source_inode_index].permissions,
                              inode_dir_target)
              new_inode_index == c.ret
              size == c.st.inodes[source_inode_index].size
              S1 == [c.st EXCEPT !.inodes[new_inode_index].size = size]
              o1 == OpenFile(S1, newname, inode_dir_target)
              o2 == OpenFile(o1.st, filename, inode_dir_source)
              r == ReadFile(o2.st, o2.ret, size, g)
              w == WriteFile(r.st, o1.ret, r.buf, g)
              S2 == CloseFile(CloseFile(w.st, o1.ret, g), o2.ret, g)
          IN  IF new_inode_index = -1 THEN [st |-> c.st, ret |-> -1]
              ELSE IF (size < 0 \/ (r.done /\ size % VlaAlign = 0)) /\ g.smash
              THEN [st |-> [r.st EXCEPT !.halted = "stack_smash"], ret |-> -1]
              ELSE [st |-> S2, ret |-> new_inode_index]

(***************************************************************************)
(* copy_directory.  The loop reads the source directory's record as the    *)
(* copies made so far leave it.                                            *)
(***************************************************************************)
RECURSIVE CopyDirectory(_, _, _, _, _, _)
RECURSIVE CopyChildren(_, _, _, _, _)
CopyChildren(S, srcDirInode, newDirInode, i, g) ==
    IF i >= NUM_DIRECTORY_ENTRIES \/ S.halted /= "no" THEN S
    ELSE
      LET childInode == S.directories[srcDirInode][i].inode_index
          childName == S.directories[srcDirInode][i].filename
          childType == IF childInode = -1 THEN -1 ELSE S.inodes[childInode].type
          S1 == IF childType = 1 \/ childType = 2
                THEN CopyFile(S, childName, childName, srcDirInode, newDirInode, g).st
                ELSE IF childType = 0
                THEN CopyDirectory(S, childName, childName, srcDirInode, newDirInode, g).st
                ELSE S
      IN  CopyChildren(S1, srcDirInode, newDirInode, i + 1, g)

CopyDirectory(S, srcDirName, newname, srcParentDir, dstParentDir, g) ==
    LET srcDirInode == RechInode(srcDirName, S.directories[srcParentDir])
    IN  IF srcDirInode = -1 THEN [st |-> S, ret |-> -1]
        ELSE IF S.inodes[srcDirInode].type /= 0 THEN [st |-> S, ret |-> -1]
        ELSE IF ~HasPermission(S, srcDirInode, "r") THEN [st |-> S, ret |-> -1]
        ELSE IF RechInode(newname, S.directories[dstParentDir]) /= -1
        THEN [st |-> S, ret |-> -1]
        ELSE IF ~HasPermission(S, dstParentDir, "w") THEN [st |-> S, ret |-> -1]
        ELSE
          LET d == CreateDirectory(S, newname, dstParentDir)
          IN  IF d.ret = -1 THEN [st |-> d.st, ret |-> -1]
              ELSE [st |-> CopyChildren(d.st, srcDirInode, d.ret, 0, g), ret |-> d.ret]

(***************************************************************************)
(* save_filesystem, load_filesystem.  The control region at the head of    *)
(* the image is the bytes of `fs`; the two handles are stored with it and  *)
(* replaced after a load.  init_filesystem writes the data region only,    *)
(* which leaves the head of a new image filled with zeros.                 *)
(***************************************************************************)
ControlOf(S) ==
    [inodes |-> S.inodes, directories |-> S.directories,
     free_blocks |-> S.free_blocks, current_dir |-> S.current_dir,
     opened_file |-> S.opened_file]

\* A save that leaves the open-file table out.
SaveFilesystemNoTable(S) ==
    [S EXCEPT !.saved = [ControlOf(S) EXCEPT !.opened_file = [d \in DESCS |-> FreeSlot]],
              !.saved_hit = FALSE]

\* The two fopen calls take the lowest free descriptor of the process: that
\* of the standard output if it has been closed.  The save lays the control
\* region over what was printed at the head of the image.
SaveFilesystem(S) ==
    [S EXCEPT !.saved = ControlOf(S), !.saved_hit = FALSE,
              !.out = IF @ = "closed" THEN "image" ELSE @,
              !.printed = 0]

\* A stream write below sizeof(Filesystem) lands in the saved open-file table,
\* the last bytes of the control region.
LoadFilesystem(S, g) ==
    [S EXCEPT !.inodes = S.saved.inodes,
              !.directories = S.saved.directories,
              !.free_blocks = S.saved.free_blocks,
              !.current_dir = S.saved.current_dir,
              !.opened_file = IF S.saved_hit
                              THEN [d \in DESCS |-> [inode |-> g.idx, tete_lecture |-> g.idx]]
                              ELSE S.saved.opened_file]

\* changerRep, and the assignment of `cd` to fs.current_dir.
ChangerRep(S, path, inode_dir, g) ==
    LET inode == GetInodeFromPath(S, path, inode_dir, g)
    IN  IF inode = -1 THEN inode_dir
        ELSE IF inode \notin INODES THEN inode_dir
        ELSE IF S.inodes[inode].type /= 0 THEN inode_dir
        ELSE inode

(***************************************************************************)
(* The state machine.  fs is the global of the source with the image;      *)
(* probe remembers the call or the pair of calls just made, with the       *)
(* state before it; steps counts the calls; plan names the calls a run     *)
(* draws from: all of them for MaxSteps calls ("all"); those that create,  *)
(* open, write, seek, close and copy files for MaxStream calls             *)
(* ("streams"); for MaxDeep calls, the four that make and remove links and *)
(* copies ("links"), or those that fill and open a tree, change directory, *)
(* save and load ("persist"); for MaxTree calls, those that build a tree,  *)
(* open its files, change permissions in it, move its files and           *)
(* directories and delete directories ("tree"); for MaxSteps calls, those  *)
(* that put a name in a directory, given a short name and one longer than  *)
(* an entry holds ("names").                                               *)
(***************************************************************************)
VARIABLES fs, probe, steps, plan, host
vars == <<fs, probe, steps, plan, host>>

\* host is the image as two processes share it, each with a global `fs` of its
\* own; the runs of one process leave it alone.
NoHolder == [proc |-> 0, gen |-> 0]
NoHost == [control |-> ZeroControl, holder |-> NoHolder, proc |-> <<>>, lost |-> FALSE]

\* What the callers pass.
Perms == {PermRW, PermRO}
Bytes == {1, 2}
Texts == UNION {[1 .. n -> Bytes] : n \in 0 .. MaxText}
ShortNames == {"a", "b"}
Paths == {[abs |-> FALSE, toks |-> <<n>>] : n \in ShortNames \cup {"..", "."}}
           \cup {[abs |-> TRUE, toks |-> <<>>]}
\* A target path, read from a 256-byte command buffer, fits in one block.
LinkTargets == {path \in Paths : Len(PathText(path)) < BLOCK_SIZE}

\* What a read outside `fs` or of a buffer never written can give: a byte, an
\* int used as an inode number, and whether the byte past content[] is
\* harmless.  A field is drawn only where the call can reach such a read:
\* a cursor inside the control region (LowCursor), a live inode whose parent
\* is not (Orphan), the slot past the open-file table, a path that climbs
\* above a freed inode, an image whose head a stream write has hit.
GarbageIf(b, i, s) ==
    [byte : IF b THEN {NUL, 1} ELSE {NUL},
     idx : IF i THEN {-1, 0, NUM_INODES - 1} ELSE {-1},
     smash : IF s THEN BOOLEAN ELSE {FALSE}]
LowCursor(S) ==
    \E d \in DESCS : S.opened_file[d].inode /= -1
                      /\ S.opened_file[d].tete_lecture < SizeofFilesystem
Orphan(S) ==
    \E i \in INODES : /\ S.inodes[i].type /= -1
                      /\ \/ S.inodes[i].inode_rep_parent \notin INODES
                         \/ S.inodes[S.inodes[i].inode_rep_parent].type = -1

\* The inodes a caller passes as a directory: the shell passes current_dir or
\* what get_inode_from_path found, after checking its type.
LiveDirs(S) == {i \in INODES : S.inodes[i].type = 0 /\ S.inodes[i].size /= -1}

\* An open descriptor; for any other the calls return before they look at
\* their other arguments.
Opened(S, desc) == desc \in DESCS /\ S.opened_file[desc].inode /= -1
\* Whether directory D has an entry of that name.
Has(S, N, D) == RechInode(N, S.directories[D]) /= -1

NoProbe == [tag |-> "none"]
NoGarbage == [byte |-> NUL, idx |-> -1, smash |-> FALSE]
LinkCalls == {"create_file", "delete_file", "create_hard_link", "copy_file"}
PersistCalls ==
    {"create_file", "create_directory", "open_file", "cd", "save_filesystem",
     "load_filesystem"}
StreamCalls ==
    {"create_file", "open_file", "write_file", "seek_file", "close_file", "copy_file"}
TreeCalls ==
    {"create_directory", "create_file", "open_file", "change_permissions",
     "move_file", "move_directory", "delete_directory"}
NameCalls == {"create_file", "create_directory", "create_hard_link"}
Running(call) ==
    /\ fs.halted = "no"
    /\ \/ plan = "all" /\ steps < MaxSteps
       \/ plan = "links" /\ steps < MaxDeep /\ call \in LinkCalls
       \/ plan = "streams" /\ steps < MaxStream /\ call \in StreamCalls
       \/ plan = "persist" /\ steps < MaxDeep /\ call \in PersistCalls
       \/ plan = "tree" /\ steps < MaxTree /\ call \in TreeCalls
       \/ plan = "names" /\ steps < MaxSteps /\ call \in NameCalls
\* The names and permissions the calls of a run are given.
PlanNames ==
    IF plan = "links" THEN Names
    ELSE IF plan = "names" THEN {"a", LongName}
    ELSE ShortNames
PlanPerms == IF plan \in {"links", "persist"} THEN {PermRW} ELSE Perms
Step(S, p) ==
    fs' = S /\ probe' = p /\ steps' = steps + 1 /\ plan' = plan /\ host' = host

Init ==
    /\ plan \in {"all", "links", "streams", "persist", "tree", "names"}
    /\ \E start \in 0 .. MAX_FILE_OPEN :
          /\ plan /= "all" => start = 0
          /\ fs = InitFilesystem(start)
    /\ probe = NoProbe
    /\ steps = 0
    /\ host = NoHost

create_file ==
    /\ Running("create_file")
    /\ \E N \in PlanNames, P \in PlanPerms, D \in LiveDirs(fs) :
          LET r == CreateFile(fs, N, P, D)
          IN  Step(r.st, [tag |-> "create_file", name |-> N, dir |-> D,
                          ret |-> r.ret, pre |-> fs])

delete_file ==
    /\ Running("delete_file")
    /\ \E N \in PlanNames, D \in LiveDirs(fs) :
          Step(DeleteFile(fs, N, D), NoProbe)

create_directory ==
    /\ Running("create_directory")
    /\ \E N \in PlanNames, D \in LiveDirs(fs) : Step(CreateDirectory(fs, N, D).st, NoProbe)

delete_directory ==
    /\ Running("delete_directory")
    /\ \E N \in PlanNames, D \in LiveDirs(fs) :
          LET r == DeleteDirectory(fs, N, D, 0)
          IN  Step(r.st, [tag |-> "delete_directory", name |-> N, dir |-> D,
                          ret |-> r.ret, pre |-> fs])

move_directory ==
    /\ Running("move_directory")
    /\ \E N \in PlanNames, D1 \in LiveDirs(fs), D2 \in LiveDirs(fs) :
          LET r == MoveDirectory(fs, N, D1, D2)
          IN  Step(r.st, [tag |-> "move_directory", name |-> N, source |-> D1,
                          target |-> D2, ret |-> r.ret, pre |-> fs])

move_file ==
    /\ Running("move_file")
    /\ \E N \in PlanNames, D1 \in LiveDirs(fs), D2 \in LiveDirs(fs) :
          LET r == MoveFile(fs, N, D1, D2)
          IN  Step(r.st, [tag |-> "move_file", name |-> N, source |-> D1,
                          target |-> D2, ret |-> r.ret, pre |-> fs])

create_hard_link ==
    /\ Running("create_hard_link")
    /\ \E L \in PlanNames, N \in PlanNames, D1 \in LiveDirs(fs), D2 \in LiveDirs(fs) :
          LET r == CreateHardLink(fs, L, N, D1, D2)
          IN  Step(r.st, [tag |-> "create_hard_link", link |-> L, name |-> N,
                          source |-> D1, target |-> D2, ret |-> r.ret])

create_symbolic_link ==
    /\ Running("create_symbolic_link")
    /\ \E L \in PlanNames, T \in LinkTargets, D \in LiveDirs(fs) :
          \E g \in GarbageIf(FALSE, Len(T.toks) > 1, FALSE) :
          Step(CreateSymbolicLink(fs, L, T, D, g).st, NoProbe)

change_permissions ==
    /\ Running("change_permissions")
    /\ \E N \in PlanNames, P \in PlanPerms, D \in LiveDirs(fs) :
          Step(ChangePermissions(fs, N, P, D).st, NoProbe)

open_file ==
    /\ Running("open_file")
    /\ \E N \in PlanNames, D \in LiveDirs(fs) :
          LET r == OpenFile(fs, N, D)
          IN  Step(r.st, [tag |-> "open_file", name |-> N, dir |-> D, ret |-> r.ret,
                          pre |-> fs])

close_file ==
    /\ Running("close_file")
    /\ \E desc \in -1 .. MAX_FILE_OPEN :
          \E g \in GarbageIf(FALSE, desc = MAX_FILE_OPEN, FALSE) :
             Step(CloseFile(fs, desc, g), [tag |-> "close_file", desc |-> desc, pre |-> fs])

write_file ==
    /\ Running("write_file")
    /\ \E desc \in -1 .. MAX_FILE_OPEN :
       \E texte \in IF Opened(fs, desc) THEN Texts ELSE {<<>>} :
          \E g \in GarbageIf(LowCursor(fs), desc = MAX_FILE_OPEN \/ Orphan(fs), FALSE) :
             Step(WriteFile(fs, desc, texte, g).st, NoProbe)

read_file ==
    /\ Running("read_file")
    /\ \E desc \in -1 .. MAX_FILE_OPEN :
       \E size \in IF Opened(fs, desc) THEN 0 .. MaxText ELSE {0} :
          \E g \in GarbageIf(LowCursor(fs), desc = MAX_FILE_OPEN, FALSE) :
             Step(ReadFile(fs, desc, size, g).st, NoProbe)

seek_file ==
    /\ Running("seek_file")
    /\ \E desc \in -1 .. MAX_FILE_OPEN :
       \E offset \in IF Opened(fs, desc) THEN -1 .. MaxText ELSE {0},
          whence \in IF Opened(fs, desc) THEN 0 .. 3 ELSE {0} :
          \E g \in GarbageIf(FALSE, desc = MAX_FILE_OPEN, FALSE) :
             Step(SeekFile(fs, desc, offset, whence, g), NoProbe)

copy_file ==
    /\ Running("copy_file")
    /\ \E N \in PlanNames, N2 \in PlanNames, D1 \in LiveDirs(fs), D2 \in LiveDirs(fs) :
       \E g \in GarbageIf(Has(fs, N, D1), Orphan(fs), Has(fs, N, D1)) :
          Step(CopyFile(fs, N, N2, D1, D2, g).st, NoProbe)

copy_directory ==
    /\ Running("copy_directory")
    /\ \E N \in PlanNames, N2 \in PlanNames, D1 \in LiveDirs(fs), D2 \in LiveDirs(fs) :
       \E g \in GarbageIf(Has(fs, N, D1), Orphan(fs), Has(fs, N, D1)) :
          Step(CopyDirectory(fs, N, N2, D1, D2, g).st, NoProbe)

save_filesystem ==
    /\ Running("save_filesystem")
    /\ Step(SaveFilesystem(fs), [tag |-> "save", pre |-> fs])

\* The shell loads an image at its start, one that a save has written
\* (interactive_shell saves right after init_filesystem).
load_filesystem ==
    /\ Running("load_filesystem")
    /\ fs.saved /= ZeroControl
    /\ \E g \in GarbageIf(FALSE, fs.saved_hit, FALSE) :
          Step(LoadFilesystem(fs, g),
               IF probe.tag = "save" THEN [tag |-> "save_load", pre |-> probe.pre]
               ELSE NoProbe)

\* The `cd` command: fs.current_dir = changerRep(path, current_dir).
cd ==
    /\ Running("cd")
    /\ \E path \in Paths : \E g \in GarbageIf(FALSE, Len(path.toks) > 1, FALSE) :
          Step([fs EXCEPT !.current_dir = ChangerRep(fs, path, fs.current_dir, g)], NoProbe)

Next ==
    \/ create_file
    \/ delete_file
    \/ create_directory
    \/ delete_directory
    \/ move_directory
    \/ move_file
    \/ create_hard_link
    \/ create_symbolic_link
    \/ change_permissions
    \/ open_file
    \/ close_file
    \/ write_file
    \/ read_file
    \/ seek_file
    \/ copy_file
    \/ copy_directory
    \/ save_filesystem
    \/ load_filesystem
    \/ cd

Spec == Init /\ [][Next]_vars

(***************************************************************************)
(* Two processes on one image, each a shell that has started (a load or an *)
(* init, then a save, which leaves fs.file open on the image) and then     *)
(* goes through lock_filesystem, load_filesystem, operations,              *)
(* save_filesystem, unlock_filesystem.  flock(2) ties a lock to the open   *)
(* file description it was taken through: host.holder names it by process  *)
(* and by the count of the fopen calls that process has assigned to        *)
(* fs.file.  LOCK_EX returns once no other description holds the lock; the *)
(* lock goes when its description is closed or unlocked.  mem is the       *)
(* process's control region.  behind and lost record history: behind, that *)
(* another process has finished a save since this one loaded; lost, that a *)
(* process has saved while behind.                                         *)
(***************************************************************************)
PROCS == {1, 2}

Description(H, p) == [proc |-> p, gen |-> H.proc[p].file]

\* fclose(fs.file) followed by fs.file = fopen(...): save_filesystem.
CloseAndReopen(H, p) ==
    [H EXCEPT !.holder = IF @ = Description(H, p) THEN NoHolder ELSE @,
              !.proc[p].file = @ + 1]

\* A load that closes the handle it replaces.
ReopenClosesOld(H, p) == CloseAndReopen(H, p)

\* fs.file = fopen(...) over a handle that is not closed: load_filesystem.
Reopen(H, p) == [H EXCEPT !.proc[p].file = @ + 1]

\* The global of a process whose control region is c.
Attach(c) ==
    [InitFilesystem(0) EXCEPT !.inodes = c.inodes, !.directories = c.directories,
                              !.free_blocks = c.free_blocks,
                              !.current_dir = c.current_dir,
                              !.opened_file = c.opened_file]

LockStep(H) == host' = H /\ UNCHANGED <<fs, probe, steps, plan>>

LockInit ==
    /\ plan = "lock"
    /\ fs = InitFilesystem(0)
    /\ probe = NoProbe
    /\ steps = 0
    /\ host = [control |-> ControlOf(InitFilesystem(0)),
               holder |-> NoHolder,
               proc |-> [p \in PROCS |->
                           [pc |-> "idle", mem |-> ControlOf(InitFilesystem(0)),
                            file |-> 0, ops |-> 0, cycles |-> 0, behind |-> FALSE]],
               lost |-> FALSE]

lock_filesystem ==
    \E p \in PROCS :
       /\ host.proc[p].pc = "idle"
       /\ host.proc[p].cycles < MaxCycles
       /\ host.holder \in {NoHolder, Description(host, p)}
       /\ LockStep([host EXCEPT !.holder = Description(host, p),
                                !.proc[p].pc = "locked"])

process_load ==
    \E p \in PROCS :
       /\ host.proc[p].pc = "locked"
       /\ LockStep(Reopen([host EXCEPT !.proc[p].mem = host.control,
                                       !.proc[p].pc = "loaded",
                                       !.proc[p].ops = 0,
                                       !.proc[p].behind = FALSE], p))

process_operation ==
    \E p \in PROCS :
       /\ host.proc[p].pc = "loaded"
       /\ host.proc[p].ops < MaxOps
       /\ \E N \in ShortNames, P \in Perms, dir \in BOOLEAN :
             LET S == Attach(host.proc[p].mem)
                 T == IF dir THEN CreateDirectory(S, N, 0).st
                      ELSE CreateFile(S, N, P, 0).st
             IN  LockStep([host EXCEPT !.proc[p].mem = ControlOf(T),
                                      !.proc[p].ops = @ + 1])

process_save ==
    \E p \in PROCS :
       /\ host.proc[p].pc = "loaded"
       /\ LockStep(CloseAndReopen(
             [host EXCEPT !.control = host.proc[p].mem,
                          !.lost = @ \/ host.proc[p].behind,
                          !.proc = [q \in PROCS |->
                                      IF q = p THEN [@[q] EXCEPT !.pc = "saved"]
                                      ELSE IF @[q].pc = "loaded"
                                      THEN [@[q] EXCEPT !.behind = TRUE]
                                      ELSE @[q]]], p))

unlock_filesystem ==
    \E p \in PROCS :
       /\ host.proc[p].pc = "saved"
       /\ LockStep([host EXCEPT !.holder = IF @ = Description(host, p)
                                           THEN NoHolder ELSE @,
                                !.proc[p].pc = "idle",
                                !.proc[p].cycles = @ + 1])

\* The end of the process closes every description it had open.
process_exit ==
    \E p \in PROCS :
       /\ host.proc[p].pc = "idle"
       /\ host.proc[p].cycles > 0
       /\ LockStep([host EXCEPT !.holder = IF @.proc = p THEN NoHolder ELSE @,
                                !.proc[p].pc = "exited"])

LockNext ==
    \/ lock_filesystem
    \/ process_load
    \/ process_operation
    \/ process_save
    \/ unlock_filesystem
    \/ process_exit

LockSpec == LockInit /\ [][LockNext]_vars

(***************************************************************************)
(* interactive_shell.  Each command is its branch of the loop, from the    *)
(* call it makes down to the save_filesystem that ends it; the local       *)
(* current_dir and fs.current_dir are assigned together.  A state is the   *)
(* shell at its prompt, or stopped (halted).                               *)
(***************************************************************************)
\* The two handles at the head of `fs` and of the image, in bytes; the inode
\* table comes after them.
HandleBytes == 2 * SizeofCharPtr

\* The rest of a branch runs only if the call before it has returned.
Saved(S) == IF S.halted = "no" THEN SaveFilesystem(S) ELSE S

\* printf: n bytes to descriptor 1.  Once a save has opened the image on that
\* descriptor they land in the image, from its first byte on after a save,
\* after the bytes printed before otherwise.  `printed` counts them.
Printf(S, n) == IF S.out = "image" THEN [S EXCEPT !.printed = @ + n] ELSE S

\* The messages of the branches that end without a save, in bytes.
MsgNoSource == 35
MsgNoFile == 30
MsgDirectory == 47
MsgUnknownType == 37

\* print_prompt: "fs:/", the path of current_dir, "> ".  The walk to the root
\* adds "/" and a name (one character here) per directory, and gives up with
\* "[chemin trop long]" once path[2048] is full, as it is when the parents
\* form a cycle.
PromptHead == 4
PromptTail == 2
TooLong == 18
PathBuf == 2048
RECURSIVE PromptWalk(_, _, _)
PromptWalk(S, dir, k) ==
    IF dir = 0 \/ dir = -1 THEN k
    ELSE IF k > NUM_INODES THEN -1
    ELSE LET parent == S.inodes[dir].inode_rep_parent
         IN  IF parent < 0 \/ parent >= NUM_DIRECTORY_ENTRIES \/ parent \notin INODES
             THEN k
             ELSE PromptWalk(S, parent, k + 1)
PrintPrompt(S) ==
    LET k == PromptWalk(S, S.current_dir, 0)
        n == IF k = -1 THEN PromptHead + TooLong + (PathBuf - 2) + PromptTail
             ELSE PromptHead + 2 * k + PromptTail
    IN  IF S.halted = "no" THEN Printf(S, n) ELSE S

\* close(fd) of unistd.h, which rfile calls on the descriptor open_file gave
\* it for a link: it closes the standard input (the shell has read its last
\* command), the standard output, or a descriptor the state does not follow.
UnistdClose(S, fd) ==
    IF fd = 0 THEN [S EXCEPT !.halted = "no_input"]
    ELSE IF fd = 1 THEN [S EXCEPT !.out = "closed"]
    ELSE S

\* -i: init_filesystem, then usr, home and usr/local, and the shell starts
\* in home.
ForcedInit(start) ==
    LET S1 == CreateDirectory(InitFilesystem(start), "usr", 0).st
        h == CreateDirectory(S1, "home", 0)
        S3 == CreateDirectory(h.st, "local", RechInode("usr", h.st.directories[0])).st
    IN  [S3 EXCEPT !.current_dir = h.ret]

ShellCp(S, arg1, arg2, arg3, g) ==
    LET D == S.current_dir
        inode == GetInodeFromPath(S, arg3, D, g)
        inode_src == RechInode(arg1, S.directories[D])
    IN  IF inode \notin INODES \/ S.inodes[inode].type /= 0 THEN Saved(S)
        ELSE IF inode_src = -1 THEN Saved(S)
        ELSE IF S.inodes[inode_src].type \in {1, 2}
        THEN Saved(CopyFile(S, arg1, arg2, D, inode, g).st)
        ELSE IF S.inodes[inode_src].type = 0
        THEN Saved(CopyDirectory(S, arg1, arg2, D, inode, g).st)
        ELSE Saved(S)

\* `continue` on a missing source skips the save.
ShellMv(S, arg1, arg2, g) ==
    LET D == S.current_dir
        src_inode == RechInode(arg1, S.directories[D])
        dest_dir == GetInodeFromPath(S, arg2, D, g)
    IN  IF src_inode = -1 THEN Printf(S, MsgNoSource)
        ELSE IF dest_dir \in INODES /\ S.inodes[dest_dir].type = 0
        THEN IF S.inodes[src_inode].type = 0
             THEN Saved(MoveDirectory(S, arg1, D, dest_dir).st)
             ELSE IF S.inodes[src_inode].type \in {1, 2}
             THEN Saved(MoveFile(S, arg1, D, dest_dir).st)
             ELSE Saved(S)
        ELSE Saved(S)

ShellLn(S, arg1, arg2, arg3, g) ==
    LET D == S.current_dir
        inode == GetInodeFromPath(S, arg3, D, g)
    IN  IF inode \notin INODES \/ S.inodes[inode].type /= 0 THEN Saved(S)
        ELSE Saved(CreateHardLink(S, arg2, arg1, D, inode).st)

\* open_file, seek_file(fd, 0, 0), read_file of the whole file; the descriptor
\* is not closed.  With fd == -1 the two calls refuse the descriptor.
ShellShow(S, name, dir, g) ==
    LET o == OpenFile(S, name, dir)
        size == IF o.ret = -1 THEN 0 ELSE o.st.inodes[o.st.opened_file[o.ret].inode].size
        S1 == SeekFile(o.st, o.ret, 0, 0, g)
    IN  IF S1.halted /= "no" THEN S1 ELSE ReadFile(S1, o.ret, size, g).st

\* What the text of a link leads rfile to: the entry `name` of directory
\* `dir`, no entry at all, or a directory record outside `fs` (kind "fault").
\* The link's descriptor is closed with close(fd), which leaves the open-file
\* table alone.
ShellRfile(S, arg1, found, g) ==
    LET D == S.current_dir
        inode == RechInode(arg1, S.directories[D])
    IN  IF inode = -1 THEN Printf(S, MsgNoFile)
        ELSE IF S.inodes[inode].type = 1 THEN Saved(ShellShow(S, arg1, D, g))
        ELSE IF S.inodes[inode].type = 2
        THEN LET S1 == ShellShow(S, arg1, D, g)
                 S2 == IF S1.halted /= "no" THEN S1
                       ELSE UnistdClose(S1, OpenFile(S, arg1, D).ret)
             IN  IF S2.halted /= "no" THEN S2
                 ELSE IF found.kind = "fault" THEN [S2 EXCEPT !.halted = "unmodelled"]
                 ELSE IF found.kind = "none" THEN Saved(S2)
                 ELSE Saved(ShellShow(S2, found.name, found.dir, g))
        ELSE IF S.inodes[inode].type = 0 THEN Printf(S, MsgDirectory)
        ELSE Printf(S, MsgUnknownType)

ShellWfile(S, arg1, arg3, arg2, g) ==
    IF arg3 \notin {"add", "rewrite"} THEN Saved(S)
    ELSE LET o == OpenFile(S, arg1, S.current_dir)
             S1 == SeekFile(o.st, o.ret, 0, IF arg3 = "add" THEN 1 ELSE 0, g)
             S2 == IF S1.halted /= "no" THEN S1 ELSE WriteFile(S1, o.ret, arg2, g).st
             S3 == IF S2.halted /= "no" THEN S2 ELSE CloseFile(S2, o.ret, g)
         IN  Saved(S3)

\* What the commands are given.
ShellGarbage(S, arg1) ==
    GarbageIf(LowCursor(OpenFile(S, arg1, S.current_dir).st), Orphan(S),
              Has(S, arg1, S.current_dir))

AtPrompt == plan = "shell" /\ fs.halted = "no" /\ steps < MaxCommands
\* A command has run; the loop prints the prompt and waits.
Prompt(S, p) == Step(PrintPrompt(S), p)

ShellInit ==
    /\ plan = "shell"
    /\ \E start \in 0 .. MAX_FILE_OPEN, force_init \in BOOLEAN :
          fs = PrintPrompt(SaveFilesystem(IF force_init THEN ForcedInit(start)
                                          ELSE InitFilesystem(start)))
    /\ probe = NoProbe
    /\ steps = 0
    /\ host = NoHost

\* help, ls, pwd, stat and a word that is no command.
show_only == AtPrompt /\ Prompt(Saved(fs), NoProbe)

cd_command ==
    /\ AtPrompt
    /\ \E arg1 \in Paths : \E g \in GarbageIf(FALSE, Len(arg1.toks) > 1, FALSE) :
          Prompt(Saved([fs EXCEPT !.current_dir =
                                    ChangerRep(fs, arg1, fs.current_dir, g)]),
                 NoProbe)

mkdir ==
    /\ AtPrompt
    /\ \E arg1 \in ShortNames :
          Prompt(Saved(CreateDirectory(fs, arg1, fs.current_dir).st), NoProbe)

touch ==
    /\ AtPrompt
    /\ \E arg1 \in ShortNames :
          Prompt(Saved(CreateFile(fs, arg1, PermRW, fs.current_dir).st), NoProbe)

rm ==
    /\ AtPrompt
    /\ \E arg1 \in ShortNames :
          Prompt(Saved(DeleteFile(fs, arg1, fs.current_dir)), NoProbe)

remdir ==
    /\ AtPrompt
    /\ \E arg1 \in ShortNames :
          Prompt(Saved(DeleteDirectory(fs, arg1, fs.current_dir, 0).st), NoProbe)

cp ==
    /\ AtPrompt
    /\ \E arg1 \in ShortNames, arg2 \in ShortNames, arg3 \in Paths :
          \E g \in ShellGarbage(fs, arg1) : Prompt(ShellCp(fs, arg1, arg2, arg3, g), NoProbe)

mv ==
    /\ AtPrompt
    /\ \E arg1 \in ShortNames, arg2 \in Paths :
          \E g \in GarbageIf(FALSE, Len(arg2.toks) > 1, FALSE) :
             Prompt(ShellMv(fs, arg1, arg2, g), [tag |-> "mv", pre |-> fs])

ln ==
    /\ AtPrompt
    /\ \E arg1 \in ShortNames, arg2 \in ShortNames, arg3 \in Paths :
          \E g \in GarbageIf(FALSE, Len(arg3.toks) > 1, FALSE) :
             Prompt(ShellLn(fs, arg1, arg2, arg3, g), NoProbe)

sym ==
    /\ AtPrompt
    /\ \E arg1 \in LinkTargets, arg2 \in ShortNames :
          \E g \in GarbageIf(FALSE, Len(arg1.toks) > 1, FALSE) :
             Prompt(Saved(CreateSymbolicLink(fs, arg2, arg1, fs.current_dir, g).st),
                    NoProbe)

rfile ==
    /\ AtPrompt
    /\ \E arg1 \in ShortNames :
          \E found \in IF Has(fs, arg1, fs.current_dir)
                       THEN {[kind |-> "fault"], [kind |-> "none"]}
                               \cup [kind : {"entry"}, name : ShortNames,
                                     dir : LiveDirs(fs)]
                       ELSE {[kind |-> "none"]} :
             \E g \in ShellGarbage(fs, arg1) :
                Prompt(ShellRfile(fs, arg1, found, g), [tag |-> "rfile", pre |-> fs])

wfile ==
    /\ AtPrompt
    /\ \E arg1 \in ShortNames, arg3 \in {"add", "rewrite", "other"} :
          \E arg2 \in IF Has(fs, arg1, fs.current_dir) /\ arg3 /= "other"
                      THEN {<<1>>, <<1, 2, 1>>} ELSE {<<1>>} :
             \E g \in ShellGarbage(fs, arg1) :
                Prompt(ShellWfile(fs, arg1, arg3, arg2, g), [tag |-> "wfile", pre |-> fs])

chmod ==
    /\ AtPrompt
    /\ \E arg1 \in ShortNames, arg2 \in Perms :
          Prompt(Saved(ChangePermissions(fs, arg1, arg2, fs.current_dir).st), NoProbe)

\* exit: the loop ends, a last save, and the process is over.
exit ==
    /\ AtPrompt
    /\ Step([SaveFilesystem(fs) EXCEPT !.halted = "exit"], NoProbe)

ShellNext ==
    \/ show_only
    \/ cd_command
    \/ mkdir
    \/ touch
    \/ rm
    \/ remdir
    \/ cp
    \/ mv
    \/ ln
    \/ sym
    \/ rfile
    \/ wfile
    \/ chmod
    \/ exit

ShellSpec == ShellInit /\ [][ShellNext]_vars

(***************************************************************************)
(* What the claims speak of: the inodes that are not free (size /= -1),    *)
(* the inodes whose block list holds b, the directory entries that point   *)
(* at inode i, the blocks an inode lists.                                  *)
(***************************************************************************)
NonFree(S) == {i \in INODES : S.inodes[i].size /= -1}
FreeInodes(S) == {i \in INODES : S.inodes[i].size = -1}
Lists(S, i, b) == \E k \in BLOCKS : S.inodes[i].blocks[k] = b
Owners(S, b) == {i \in NonFree(S) : Lists(S, i, b)}
EntriesOf(S, i) ==
    {de \in LiveDirs(S) \X ENTRIES : S.directories[de[1]][de[2]].inode_index = i}
BlocksListed(S, i) == Cardinality({k \in BLOCKS : S.inodes[i].blocks[k] /= -1})
CeilDiv(n, d) == (n + d - 1) \div d
FreeSlots(S) == {d \in DESCS : S.opened_file[d].inode = -1}

(***************************************************************************)
(* C1.  For every block b: free_blocks[b] = 1 exactly when b is in the     *)
(* block list of exactly one inode that is not free, and no block is in    *)
(* the lists of two inodes.                                                *)
(***************************************************************************)
BitmapMatchesLists ==
    fs.halted = "no" =>
       \A b \in BLOCKS :
          /\ fs.free_blocks[b] = 1 <=> Cardinality(Owners(fs, b)) = 1
          /\ Cardinality({i \in INODES : Lists(fs, i, b)}) <= 1

(***************************************************************************)
(* C2.  Every entry in use of the record of every directory inode that is  *)
(* not free points at an inode whose type is not -1.                       *)
(***************************************************************************)
EntriesPointAtLiveInodes ==
    fs.halted = "no" =>
       \A d \in LiveDirs(fs), e \in ENTRIES :
          LET j == fs.directories[d][e].inode_index
          IN  j /= -1 => j \in INODES /\ fs.inodes[j].type /= -1

(***************************************************************************)
(* C3.  For every inode that is not free, link_count is the number of      *)
(* entries, over the records of the directories that are not free, that    *)
(* point at it.                                                            *)
(***************************************************************************)
LinkCountIsEntryCount ==
    fs.halted = "no" =>
       \A i \in NonFree(fs) : fs.inodes[i].link_count = Cardinality(EntriesOf(fs, i))

(***************************************************************************)
(* Reading the whole of a file: open_file, then read_file of as many bytes *)
(* as the inode's size.  ok tells whether the file opened and was read.    *)
(***************************************************************************)
WholeOf(S, filename, dir_inode, g) ==
    LET inode == RechInode(filename, S.directories[dir_inode])
        o == OpenFile(S, filename, dir_inode)
        r == ReadFile(o.st, o.ret, S.inodes[inode].size, g)
    IN  IF inode = -1 \/ o.ret = -1 THEN [ok |-> FALSE, buf |-> <<>>]
        ELSE [ok |-> r.done, buf |-> r.buf]

(***************************************************************************)
(* C4.  Right after create_hard_link has made entry `link` for the file    *)
(* inode of entry `name`: delete_file(name) leaves `link` in place,        *)
(* pointing at an inode of type file, and reading the whole of `link`      *)
(* gives the bytes it gave before the delete.                              *)
(***************************************************************************)
HardLinkSurvivesDelete ==
    (/\ fs.halted = "no"
     /\ probe.tag = "create_hard_link"
     /\ probe.ret = 0
     /\ fs.inodes[RechInode(probe.name, fs.directories[probe.source])].type = 1
     /\ FreeSlots(fs) /= {})
    => LET i == RechInode(probe.name, fs.directories[probe.source])
           before == WholeOf(fs, probe.link, probe.target, NoGarbage)
           S1 == DeleteFile(fs, probe.name, probe.source)
           after == WholeOf(S1, probe.link, probe.target, NoGarbage)
       IN  /\ RechInode(probe.link, S1.directories[probe.target]) = i
           /\ S1.inodes[i].type = 1
           /\ after.ok
           /\ after.buf = before.buf

(***************************************************************************)
(* C5.  On a file that create_file has just made with read and write       *)
(* permission, for every text b of n >= 1 non-zero bytes, with a free      *)
(* block for every BLOCK_SIZE bytes: write_file(fd, b, n), seek_file(fd,   *)
(* 0, 0), read_file(fd, buf, n) gives buf = b.                             *)
(***************************************************************************)
WriteSeekReadGivesText ==
    (/\ fs.halted = "no"
     /\ probe.tag = "create_file"
     /\ probe.ret /= -1
     /\ HasPermission(fs, probe.ret, "r")
     /\ HasPermission(fs, probe.ret, "w")
     /\ FreeSlots(fs) /= {})
    => \A b \in Texts :
          (Len(b) >= 1 /\ Cardinality(FreeBlockSet(fs.free_blocks)) >= CeilDiv(Len(b), BLOCK_SIZE))
          => LET o == OpenFile(fs, probe.name, probe.dir)
                 w == WriteFile(o.st, o.ret, b, NoGarbage)
                 k == SeekFile(w.st, o.ret, 0, 0, NoGarbage)
                 r == ReadFile(k, o.ret, Len(b), NoGarbage)
             IN  r.buf = b

(***************************************************************************)
(* C6.  Whenever copy_file of a source file that has read permission       *)
(* returns a new inode, reading the whole of the new file gives the bytes  *)
(* that reading the whole of the source gives.  The sources are the files  *)
(* that create_file made and write_file filled.                            *)
(***************************************************************************)
CopyReadsAsSource ==
    (fs.halted = "no" /\ plan = "streams") =>
       \A N \in ShortNames, N2 \in ShortNames, D1 \in LiveDirs(fs), D2 \in LiveDirs(fs) :
          \A g \in GarbageIf(Has(fs, N, D1), Orphan(fs), Has(fs, N, D1)) :
             LET source == RechInode(N, fs.directories[D1])
                 c == CopyFile(fs, N, N2, D1, D2, g)
             IN  (/\ source /= -1
                  /\ fs.inodes[source].type = 1
                  /\ HasPermission(fs, source, "r")
                  /\ Cardinality(FreeSlots(fs)) >= 2
                  /\ WholeOf(fs, N, D1, g).ok
                  /\ c.ret /= -1
                  /\ c.st.halted = "no")
                 => /\ WholeOf(c.st, N2, D2, g).ok
                    /\ WholeOf(c.st, N2, D2, g).buf = WholeOf(fs, N, D1, g).buf

(***************************************************************************)
(* C7.  For every name N that directory D does not hold and every          *)
(* permissions P: create_file(N, P, D) and then delete_file(N, D) leave    *)
(* the set of free inodes, the bitmap, every block list and the record of  *)
(* D as they were.                                                         *)
(***************************************************************************)
CreateThenDeleteRestores ==
    fs.halted = "no" =>
       \A N \in PlanNames, P \in PlanPerms, D \in LiveDirs(fs) :
          ~Has(fs, N, D)
          => LET S2 == DeleteFile(CreateFile(fs, N, P, D).st, N, D)
             IN  /\ FreeInodes(S2) = FreeInodes(fs)
                 /\ S2.free_blocks = fs.free_blocks
                 /\ \A i \in INODES : S2.inodes[i].blocks = fs.inodes[i].blocks
                 /\ S2.directories[D] = fs.directories[D]

(***************************************************************************)
(* C8.  When create_file has returned -1, the inode table, the bitmap and  *)
(* every directory record are what they were before the call.              *)
(***************************************************************************)
FailedCreateChangesNothing ==
    (probe.tag = "create_file" /\ probe.ret = -1)
    => /\ fs.inodes = probe.pre.inodes
       /\ fs.free_blocks = probe.pre.free_blocks
       /\ fs.directories = probe.pre.directories

\* create_file has failed for want of a directory entry, after it had reserved
\* an inode and allocated a block.
FailedCreateRolledBack ==
    /\ probe.tag = "create_file"
    /\ probe.ret = -1
    /\ HasPermission(probe.pre, probe.dir, "w")
    /\ ~Has(probe.pre, probe.name, probe.dir)
    /\ FirstFreeInode(probe.pre) /= -1
    /\ FreeBlockSet(probe.pre.free_blocks) /= {}
    /\ RechEntree(probe.pre, probe.dir) = -1

(***************************************************************************)
(* C9.  After save_filesystem and then load_filesystem, the inode table,   *)
(* the directory records, the bitmap, current_dir and the open-file table  *)
(* are what they were before the save.                                     *)
(***************************************************************************)
SaveThenLoadPreserves ==
    probe.tag = "save_load" => ControlOf(fs) = ControlOf(probe.pre)

\* A save and a load with a file open and the current directory away from
\* the root.
SavedAndLoadedOpenFile ==
    /\ probe.tag = "save_load"
    /\ fs.current_dir /= 0
    /\ \E d \in DESCS : /\ fs.opened_file[d].inode \in INODES
                         /\ fs.inodes[fs.opened_file[d].inode].type = 1

(***************************************************************************)
(* C10.  After calls of create_file, open_file, write_file, seek_file,     *)
(* close_file and copy_file only, every inode of type file with size > 0   *)
(* lists at least ceil(size / BLOCK_SIZE) blocks.                          *)
(***************************************************************************)
BlocksCoverSize ==
    (fs.halted = "no" /\ plan = "streams") =>
       \A i \in INODES :
          (fs.inodes[i].type = 1 /\ fs.inodes[i].size > 0)
          => BlocksListed(fs, i) >= CeilDiv(fs.inodes[i].size, BLOCK_SIZE)

(***************************************************************************)
(* C11.  Between operations, for every inode i: size(i) = -1 if and only   *)
(* if type(i) = -1; no inode that is not free has size -1 and no free      *)
(* inode has another size.                                                 *)
(***************************************************************************)
SizeMarksFree ==
    fs.halted = "no" =>
       \A i \in INODES : (fs.inodes[i].size = -1) <=> (fs.inodes[i].type = -1)

(***************************************************************************)
(* C12.  For every inode i /= 0 that directory entries lead to from the    *)
(* root, the chain i, inode_rep_parent(i), ... visits only indices of      *)
(* inodes that are not free and reaches inode 0 in at most NUM_INODES      *)
(* steps.                                                                  *)
(***************************************************************************)
\* The inodes that the entries of the directories in `seen` name.
ChildrenOf(S, seen) ==
    {S.directories[d][e].inode_index :
        d \in {x \in seen : S.inodes[x].type = 0}, e \in ENTRIES} \cap INODES

RECURSIVE ReachFrom(_, _, _)
ReachFrom(S, seen, fuel) ==
    IF fuel = 0 \/ ChildrenOf(S, seen) \subseteq seen THEN seen
    ELSE ReachFrom(S, seen \cup ChildrenOf(S, seen), fuel - 1)

ReachableFromRoot(S) == ReachFrom(S, {0}, NUM_INODES)

RECURSIVE ChainReachesRoot(_, _, _)
ChainReachesRoot(S, i, fuel) ==
    IF i = 0 THEN TRUE
    ELSE IF fuel = 0 \/ i \notin INODES THEN FALSE
    ELSE IF S.inodes[i].type = -1 THEN FALSE
    ELSE ChainReachesRoot(S, S.inodes[i].inode_rep_parent, fuel - 1)

ParentChainsReachRoot ==
    fs.halted = "no" =>
       \A i \in ReachableFromRoot(fs) \ {0} : ChainReachesRoot(fs, i, NUM_INODES)

(***************************************************************************)
(* C13.  After calls of create_file, open_file, write_file, seek_file,     *)
(* close_file and copy_file, the cursor of every occupied open-file slot   *)
(* lies inside a block that the slot's inode lists: for some k,            *)
(* blocks[k] /= -1 and BlockStart(blocks[k]) <= cursor <                   *)
(* BlockStart(blocks[k] + 1).                                              *)
(***************************************************************************)
CursorInOwnBlock ==
    (fs.halted = "no" /\ plan = "streams") =>
       \A d \in DESCS :
          Opened(fs, d)
          => \E k \in BLOCKS :
                /\ fs.inodes[fs.opened_file[d].inode].blocks[k] /= -1
                /\ InBlock(fs.inodes[fs.opened_file[d].inode].blocks[k],
                           fs.opened_file[d].tete_lecture)

(***************************************************************************)
(* C14.  In every state inode 0 is not free (size /= -1), has type         *)
(* directory and has inode_rep_parent = 0: no operation frees it, changes  *)
(* its type or changes its parent.                                         *)
(***************************************************************************)
RootStaysRoot ==
    /\ fs.inodes[0].size /= -1
    /\ fs.inodes[0].type = 0
    /\ fs.inodes[0].inode_rep_parent = 0

\* delete_directory has just deleted a directory of the root that held an
\* entry of its own.
DeletedUnderRoot ==
    /\ probe.tag = "delete_directory"
    /\ probe.ret = 0
    /\ probe.dir = 0
    /\ \E e \in ENTRIES :
          probe.pre.directories[RechInode(probe.name, probe.pre.directories[0])][e]
             .inode_index /= -1

(***************************************************************************)
(* C15.  A write_file call that returns k >= 0 adds exactly k to the size  *)
(* of the file's inode and to the size of every directory on the path      *)
(* from the file up to the root, the root included, and leaves the size of *)
(* every other inode as it was.                                            *)
(***************************************************************************)
\* The directories on the paths that lead to inode i: those that hold an entry
\* for it, those that hold an entry for one of these, and so on up to the root.
RECURSIVE ContainersOf(_, _, _)
ContainersOf(S, below, fuel) ==
    LET up == {d \in INODES : /\ S.inodes[d].type = 0
                              /\ \E e \in ENTRIES :
                                    S.directories[d][e].inode_index \in below}
    IN  IF fuel = 0 \/ up \subseteq below THEN below
        ELSE ContainersOf(S, below \cup up, fuel - 1)

PathAbove(S, i) == ContainersOf(S, {i}, NUM_INODES)

WriteAddsToPath ==
    fs.halted = "no" =>
       \A desc \in DESCS : \A texte \in Texts :
          \A g \in GarbageIf(LowCursor(fs), Orphan(fs), FALSE) :
             LET w == WriteFile(fs, desc, texte, g)
                 f == fs.opened_file[desc].inode
             IN  (Opened(fs, desc) /\ f \in INODES /\ w.ret >= 0 /\ w.st.halted = "no")
                 => \A i \in INODES :
                       w.st.inodes[i].size =
                          fs.inodes[i].size + (IF i \in PathAbove(fs, f) THEN w.ret ELSE 0)

(***************************************************************************)
(* C16.  For an open file whose block list holds m allocated blocks, in    *)
(* its first m places, and every offset k with 0 <= k < m * BLOCK_SIZE:    *)
(* seek_file(fd, k, 0) leaves the cursor at the start of                   *)
(* blocks[k div BLOCK_SIZE] plus k mod BLOCK_SIZE, logical byte k.  The   *)
(* files are those that create_file made and write_file and copy_file      *)
(* filled.                                                                 *)
(***************************************************************************)
\* The cursor at logical byte k of inode i.
LogicalByte(S, i, k) ==
    BlockStart(S.inodes[i].blocks[k \div BLOCK_SIZE]) + (k % BLOCK_SIZE)

\* The open descriptors of files whose m listed blocks are the first m places
\* of the list.
OpenFiles(S) ==
    {d \in DESCS : /\ Opened(S, d)
                   /\ S.opened_file[d].inode \in INODES
                   /\ S.inodes[S.opened_file[d].inode].type = 1
                   /\ \A j \in BLOCKS :
                         j < BlocksListed(S, S.opened_file[d].inode)
                         => S.inodes[S.opened_file[d].inode].blocks[j] \in BLOCKS}

SeekFromStartLandsOnByte ==
    (fs.halted = "no" /\ plan = "streams") =>
       \A desc \in OpenFiles(fs) :
          LET i == fs.opened_file[desc].inode
          IN  \A k \in 0 .. BlocksListed(fs, i) * BLOCK_SIZE - 1 :
                 SeekFile(fs, desc, k, 0, NoGarbage).opened_file[desc].tete_lecture
                    = LogicalByte(fs, i, k)

(***************************************************************************)
(* C17.  For an open file whose cursor is at logical byte p, and every     *)
(* offset >= 0 with p + offset inside the allocated blocks:                *)
(* seek_file(fd, offset, 2) leaves the cursor at logical byte p + offset,  *)
(* wherever in its block the cursor was.  The files are those that         *)
(* create_file made and write_file and copy_file filled.                   *)
(***************************************************************************)
SeekFromCursorAdvances ==
    (fs.halted = "no" /\ plan = "streams") =>
       \A desc \in OpenFiles(fs) :
          LET i == fs.opened_file[desc].inode
              last == BlocksListed(fs, i) * BLOCK_SIZE - 1
          IN  \A p \in 0 .. last : \A offset \in 0 .. MaxText :
                 (/\ fs.opened_file[desc].tete_lecture = LogicalByte(fs, i, p)
                  /\ p + offset <= last)
                 => SeekFile(fs, desc, offset, 2, NoGarbage).opened_file[desc].tete_lecture
                       = LogicalByte(fs, i, p + offset)

(***************************************************************************)
(* C18.  For a file with write permission whose content is s non-zero      *)
(* bytes, s >= 0, and every text t of n bytes: open_file, seek_file(fd,    *)
(* 0, 1), write_file(fd, t, n), close_file leave a file whose content is   *)
(* the old s bytes followed by t and whose size is s + n.  The files are   *)
(* those that create_file made and write_file and copy_file filled, with   *)
(* a free block for every BLOCK_SIZE bytes of t and one more.              *)
(***************************************************************************)
\* The append of the shell's `wfile <name> add <text>`.
AppendTo(S, filename, dir_inode, texte) ==
    LET o == OpenFile(S, filename, dir_inode)
        k == SeekFile(o.st, o.ret, 0, 1, NoGarbage)
        w == WriteFile(k, o.ret, texte, NoGarbage)
    IN  CloseFile(w.st, o.ret, NoGarbage)

AppendKeepsOldThenNew ==
    (fs.halted = "no" /\ plan = "streams") =>
       \A N \in ShortNames, D \in LiveDirs(fs) : \A t \in Texts :
          LET i == RechInode(N, fs.directories[D])
              old == WholeOf(fs, N, D, NoGarbage)
              S2 == AppendTo(fs, N, D, t)
          IN  (/\ i /= -1
               /\ fs.inodes[i].type = 1
               /\ HasPermission(fs, i, "w")
               /\ HasPermission(fs, i, "r")
               /\ FreeSlots(fs) /= {}
               /\ old.ok
               /\ Len(old.buf) = fs.inodes[i].size
               /\ \A x \in 1 .. Len(old.buf) : old.buf[x] /= NUL
               /\ Cardinality(FreeBlockSet(fs.free_blocks))
                     >= CeilDiv(Len(t), BLOCK_SIZE) + 1)
              => /\ S2.inodes[i].size = fs.inodes[i].size + Len(t)
                 /\ WholeOf(S2, N, D, NoGarbage).buf = old.buf \o t

(***************************************************************************)
(* C19.  For every descriptor outside 0..MAX_FILE_OPEN-1 and every         *)
(* descriptor inside it whose slot is free: write_file, read_file,         *)
(* seek_file and close_file look at no slot outside 0..MAX_FILE_OPEN-1,    *)
(* write_file returns -1, and each of the four leaves the open-file table, *)
(* the inode table and the bitmap as they were.                            *)
(***************************************************************************)
InvalidDescriptorRefused ==
    fs.halted = "no" =>
       \A desc \in -1 .. MAX_FILE_OPEN + 1 :
          (desc \notin DESCS \/ fs.opened_file[desc].inode = -1)
          => \A g \in GarbageIf(FALSE, TestedSlot(desc) \notin DESCS \cup {-1}, FALSE) :
                /\ TestedSlot(desc) \in DESCS \cup {-1}
                /\ WriteFile(fs, desc, <<1>>, g).ret = -1
                /\ WriteFile(fs, desc, <<1>>, g).st = fs
                /\ ReadFile(fs, desc, 1, g).st = fs
                /\ SeekFile(fs, desc, 0, 0, g) = fs
                /\ CloseFile(fs, desc, g) = fs

(***************************************************************************)
(* C20.  When delete_directory(name, parent) has returned 0, every inode   *)
(* that was in the subtree of the target before the call (the target, its  *)
(* subdirectories, files and links, whatever their permissions) is free,   *)
(* every block they listed is free in the bitmap, and parent has no entry  *)
(* of that name.                                                           *)
(***************************************************************************)
DeleteDirectoryFreesSubtree ==
    (fs.halted = "no" /\ probe.tag = "delete_directory" /\ probe.ret = 0)
    => LET target == RechInode(probe.name, probe.pre.directories[probe.dir])
           subtree == ReachFrom(probe.pre, {target}, NUM_INODES)
       IN  /\ \A i \in subtree : fs.inodes[i].type = -1 /\ fs.inodes[i].size = -1
           /\ \A i \in subtree : \A b \in BLOCKS :
                 Lists(probe.pre, i, b) => fs.free_blocks[b] = 0
           /\ RechInode(probe.name, fs.directories[probe.dir]) = -1

(***************************************************************************)
(* C21.  After copy_directory(src_name, new_name, src_parent, dst_parent)  *)
(* has returned the new directory, the new directory holds one entry for   *)
(* each entry that the source held when the call started, of the same name *)
(* and the same inode type, and so on in the subdirectories; and the call  *)
(* has allocated as many inodes as the source subtree held.  dst_parent    *)
(* may be the source directory or lie inside it.                           *)
(***************************************************************************)
\* The (name, type) pairs of the entries of directory d.
Listing(S, d) ==
    {<<S.directories[d][e].filename, S.inodes[S.directories[d][e].inode_index].type>> :
        e \in {x \in ENTRIES : S.directories[d][x].inode_index \in INODES}}

\* Directory dst of state T lists what directory src of state S lists, and so
\* do the subdirectories of the same names.
RECURSIVE SameTree(_, _, _, _, _)
SameTree(S, src, T, dst, fuel) ==
    /\ Listing(T, dst) = Listing(S, src)
    /\ fuel > 0 =>
          \A e \in ENTRIES :
             LET child == S.directories[src][e].inode_index
                 name == S.directories[src][e].filename
             IN  (child \in INODES /\ S.inodes[child].type = 0)
                 => /\ RechInode(name, T.directories[dst]) \in INODES
                    /\ SameTree(S, child, T, RechInode(name, T.directories[dst]), fuel - 1)

CopyDirectoryMirrorsSource ==
    fs.halted = "no" =>
       \A N \in PlanNames, N2 \in PlanNames, D1 \in LiveDirs(fs), D2 \in LiveDirs(fs) :
          \A g \in GarbageIf(Has(fs, N, D1), Orphan(fs), Has(fs, N, D1)) :
             LET src == RechInode(N, fs.directories[D1])
                 c == CopyDirectory(fs, N, N2, D1, D2, g)
             IN  (c.ret /= -1 /\ c.st.halted = "no")
                 => /\ SameTree(fs, src, c.st, c.ret, NUM_INODES)
                    /\ Cardinality(FreeInodes(fs)) - Cardinality(FreeInodes(c.st))
                          = Cardinality(ReachFrom(fs, {src}, NUM_INODES))

(***************************************************************************)
(* C22.  After create_symbolic_link(link_name, target_path, parent) has    *)
(* returned the new inode, for every target_path of 1 to BLOCK_SIZE-1      *)
(* characters: the inode has type symlink and link_count 1, blocks[0] is a *)
(* block that was free before the call, and size is the length of          *)
(* target_path plus one.                                                   *)
(***************************************************************************)
SymlinkSizeIsPathLength ==
    fs.halted = "no" =>
       \A L \in PlanNames, T \in LinkTargets, D \in LiveDirs(fs) :
          \A g \in GarbageIf(FALSE, Len(T.toks) > 1, FALSE) :
             LET c == CreateSymbolicLink(fs, L, T, D, g)
             IN  (/\ c.ret /= -1
                  /\ Len(PathText(T)) >= 1
                  /\ Len(PathText(T)) <= BLOCK_SIZE - 1)
                 => /\ c.st.inodes[c.ret].type = 2
                    /\ c.st.inodes[c.ret].link_count = 1
                    /\ c.st.inodes[c.ret].blocks[0] \in FreeBlockSet(fs.free_blocks)
                    /\ c.st.inodes[c.ret].size = Len(PathText(T)) + 1

(***************************************************************************)
(* C23.  move_directory(name, src_parent, dst_parent) either returns -1    *)
(* and leaves every inode, every directory record and the bitmap as they   *)
(* were, or returns 0 and then: the entry (name, i) has left src_parent    *)
(* and is in a place of dst_parent that was free, inode_rep_parent(i) is   *)
(* dst_parent, and no other entry, no other field of an inode and no       *)
(* bitmap entry has changed.                                               *)
(***************************************************************************)
\* The records of state T are those of state S but for the entry (name, i),
\* which has gone from directory src to a free place of directory dst.
EntryMoved(S, T, name, i, src, dst) ==
    \E e1 \in ENTRIES, e2 \in ENTRIES :
       /\ S.directories[src][e1] = [filename |-> name, inode_index |-> i]
       /\ S.directories[dst][e2].inode_index = -1
       /\ src /= dst
       /\ T.directories =
             [S.directories EXCEPT ![dst][e2] = [filename |-> name, inode_index |-> i],
                                   ![src][e1] = EmptyEntry]

MoveDirectoryFrame ==
    (fs.halted = "no" /\ probe.tag = "move_directory")
    => LET i == RechInode(probe.name, probe.pre.directories[probe.source])
       IN  /\ fs.free_blocks = probe.pre.free_blocks
           /\ probe.ret \in {-1, 0}
           /\ probe.ret = -1 => /\ fs.inodes = probe.pre.inodes
                                /\ fs.directories = probe.pre.directories
           /\ probe.ret = 0 =>
                 /\ EntryMoved(probe.pre, fs, probe.name, i, probe.source, probe.target)
                 /\ fs.inodes =
                       [probe.pre.inodes EXCEPT ![i].inode_rep_parent = probe.target]

\* move_directory has moved a directory that holds an entry into another one.
MovedDirectoryWithEntry ==
    /\ probe.tag = "move_directory"
    /\ probe.ret = 0
    /\ probe.target /= 0
    /\ \E e \in ENTRIES :
          fs.directories[RechInode(probe.name, fs.directories[probe.target])][e]
             .inode_index /= -1

(***************************************************************************)
(* C24.  A move_file(name, src_parent, dst_parent) that succeeds takes the *)
(* entry (name, i) out of src_parent and puts it in a free place of        *)
(* dst_parent, and leaves every inode (inode i's inode_rep_parent, size,   *)
(* block list, permissions and link_count included) and the bitmap as they *)
(* were; one that fails (missing name, name clash in dst_parent, no write  *)
(* permission on either directory, no free place) changes nothing.         *)
(***************************************************************************)
\* The reasons for which move_file gives up.
MoveFileRefused(S, name, src, dst) ==
    \/ RechInode(name, S.directories[src]) = -1
    \/ RechInode(name, S.directories[dst]) /= -1
    \/ ~HasPermission(S, src, "w")
    \/ ~HasPermission(S, dst, "w")
    \/ RechEntree(S, dst) = -1

ThreeFlags(p) == Len(p) = 3 /\ \A k \in 1 .. 3 : p[k] \in {"r", "w", "x", "-"}

PermissionsAreThreeFlags ==
    fs.halted = "no" =>
       \A N \in PlanNames, D \in LiveDirs(fs), P \in ArgStrings :
          LET c == ChangePermissions(fs, N, P, D)
              f == CreateFile(fs, N, P, D)
          IN  /\ c.ret = 0 =>
                   \A i \in NonFree(c.st) :
                      i = RechInode(N, fs.directories[D])
                         => ThreeFlags(c.st.inodes[i].permissions)
              /\ f.ret /= -1 => ThreeFlags(f.st.inodes[f.ret].permissions)

(***************************************************************************)
(* C26.  An inode grants read, write or execute exactly when the character *)
(* at position 0, 1 or 2 of its permissions is 'r', 'w' or 'x', so that a  *)
(* directory whose permissions are "w--" refuses create_file: here, for an *)
(* inode whose permissions change_permissions has just set to three flags. *)
(***************************************************************************)
PermissionIsPositional ==
    fs.halted = "no" =>
       \A N \in PlanNames, D \in LiveDirs(fs), P \in ArgStrings :
          LET c == ChangePermissions(fs, N, P, D)
              i == RechInode(N, fs.directories[D])
              p == c.st.inodes[i].permissions
          IN  (c.ret = 0 /\ ThreeFlags(P) /\ i \in LiveDirs(fs))
              => /\ HasPermission(c.st, i, "r") = (p[1] = "r")
                 /\ HasPermission(c.st, i, "w") = (p[2] = "w")
                 /\ HasPermission(c.st, i, "x") = (p[3] = "x")
                 /\ p[2] /= "w" =>
                       \A M \in PlanNames : CreateFile(c.st, M, PermRW, i).ret = -1

(***************************************************************************)
(* C27.  allocate_block returns the smallest index i of 0..NUM_BLOCKS-1    *)
(* with free_blocks[i] == 0 and sets that entry of the bitmap, and no      *)
(* other, to 1; when no entry is 0 it returns -1 and leaves the bitmap as  *)
(* it was.  The block a create_file has just taken is that smallest index. *)
(***************************************************************************)
AllocateBlockTakesFirstFree ==
    fs.halted = "no" =>
       LET a == AllocateBlock(fs)
       IN  /\ IF \E b \in BLOCKS : fs.free_blocks[b] = 0
              THEN /\ a.ret \in BLOCKS
                   /\ fs.free_blocks[a.ret] = 0
                   /\ \A b \in BLOCKS : b < a.ret => fs.free_blocks[b] /= 0
                   /\ a.st.free_blocks[a.ret] = 1
                   /\ \A b \in BLOCKS :
                         b /= a.ret => a.st.free_blocks[b] = fs.free_blocks[b]
              ELSE /\ a.ret = -1
                   /\ a.st.free_blocks = fs.free_blocks
           /\ (probe.tag = "create_file" /\ probe.ret /= -1)
              => LET b == fs.inodes[probe.ret].blocks[0]
                 IN  /\ b \in BLOCKS
                     /\ probe.pre.free_blocks[b] = 0
                     /\ \A k \in BLOCKS : k < b => probe.pre.free_blocks[k] /= 0

\* create_file has taken a block from a bitmap whose first free entry came
\* before an entry in use.
AllocatedBelowUsedBlock ==
    /\ probe.tag = "create_file"
    /\ probe.ret /= -1
    /\ \E k \in BLOCKS : /\ k > fs.inodes[probe.ret].blocks[0]
                         /\ probe.pre.free_blocks[k] = 1

(***************************************************************************)
(* C28.  open_file on the name of a file or of a symbolic link returns the *)
(* lowest free place of the open-file table, which no open descriptor has, *)
(* and puts that place's cursor on the first byte of the inode's           *)
(* blocks[0]; when the name is missing, names a directory, or every place  *)
(* is taken, it returns -1 and leaves the table as it was.  close_file on  *)
(* an open descriptor frees that place and no other.                       *)
(***************************************************************************)
OpenTakesLowestFreeSlot ==
    /\ (fs.halted = "no" /\ probe.tag = "open_file")
       => LET P == probe.pre
              i == RechInode(probe.name, P.directories[probe.dir])
              refused == \/ i = -1
                         \/ P.inodes[i].type \notin {1, 2}
                         \/ FreeSlots(P) = {}
          IN  /\ fs.inodes = P.inodes
              /\ fs.directories = P.directories
              /\ fs.free_blocks = P.free_blocks
              /\ (probe.ret = -1) = refused
              /\ probe.ret = -1 => fs.opened_file = P.opened_file
              /\ probe.ret /= -1 =>
                    /\ probe.ret \in FreeSlots(P)
                    /\ \A d \in FreeSlots(P) : probe.ret <= d
                    /\ ~Opened(P, probe.ret)
                    /\ fs.opened_file =
                          [P.opened_file EXCEPT
                              ![probe.ret] =
                                 [inode |-> i,
                                  tete_lecture |->
                                     SizeofFilesystem + P.inodes[i].blocks[0] * BLOCK_SIZE]]
    /\ (fs.halted = "no" /\ probe.tag = "close_file" /\ Opened(probe.pre, probe.desc))
       => /\ fs.opened_file = [probe.pre.opened_file EXCEPT ![probe.desc] = FreeSlot]
          /\ probe.desc \in FreeSlots(fs)

\* open_file has taken the second place of the table for a file while the
\* first was open on a file.
OpenedSecondSlot ==
    /\ probe.tag = "open_file"
    /\ probe.ret = 1
    /\ Opened(probe.pre, 0)
    /\ probe.pre.opened_file[0].tete_lecture >= SizeofFilesystem
    /\ fs.inodes[fs.opened_file[1].inode].type = 1
    /\ fs.opened_file[1].tete_lecture >= SizeofFilesystem

(***************************************************************************)
(* C29.  With two processes on one image, each going through               *)
(* lock_filesystem, load_filesystem, operations, save_filesystem,          *)
(* unlock_filesystem: at most one process is between its load and the end  *)
(* of its save; the lock a process took is its own across the load and the *)
(* save, up to its unlock; and no save writes over a control region that   *)
(* was saved after the saving process loaded.                              *)
(***************************************************************************)
OneProcessBetweenLoadAndSave ==
    plan = "lock" =>
       /\ \A p \in PROCS, q \in PROCS :
             (host.proc[p].pc = "loaded" /\ host.proc[q].pc = "loaded") => p = q
       /\ \A p \in PROCS :
             host.proc[p].pc \in {"locked", "loaded", "saved"} => host.holder.proc = p
       /\ \A p \in PROCS : host.proc[p].pc = "loaded" => ~host.proc[p].behind
       /\ ~host.lost

\* A process has saved what its operations made while the other process has
\* yet to get the lock.
SavedUnderLock ==
    /\ plan = "lock"
    /\ \E p \in PROCS, q \in PROCS :
          /\ p /= q
          /\ host.proc[p].pc = "saved"
          /\ host.proc[p].ops > 0
          /\ host.control = host.proc[p].mem
          /\ host.control /= ControlOf(InitFilesystem(0))
          /\ host.proc[q].pc = "idle"
          /\ host.proc[q].cycles = 0

(***************************************************************************)
(* C30.  Whenever the shell waits for the next command, the control region *)
(* at the head of the image is the control region in memory: a command     *)
(* that changes the inode table, a directory record, the bitmap, the       *)
(* open-file table or the current directory has saved it before the next   *)
(* command is read, whether it succeeded or failed.  The image equals the  *)
(* memory when the last save wrote this control region, no stray store has *)
(* changed it since, and the text printed into the image since that save   *)
(* has not gone past the two handles into the inode table.                 *)
(***************************************************************************)
PromptHasSavedImage ==
    (plan = "shell" /\ fs.halted = "no")
    => /\ fs.saved = ControlOf(fs)
       /\ ~fs.saved_hit
       /\ fs.printed <= HandleBytes

(***************************************************************************)
(* C31.  Right after init_filesystem every open-file slot is free (inode   *)
(* -1 and cursor -1), and an open_file that succeeds on the table as       *)
(* init_filesystem left it returns descriptor 0.                           *)
(***************************************************************************)
InitLeavesSlotsFree ==
    /\ steps = 0 /\ plan /= "lock"
          => \A d \in DESCS : fs.opened_file[d] = FreeSlot
    /\ (/\ probe.tag = "open_file"
        /\ probe.ret /= -1
        /\ \E start \in 0 .. MAX_FILE_OPEN :
              probe.pre.opened_file = InitFilesystem(start).opened_file)
       => probe.ret = 0

(***************************************************************************)
(* C32.  write_file on a descriptor of inode i changes no byte of a block  *)
(* that, after the call, is free or is listed by another inode that is not *)
(* free and is not in the list of i, whatever the length of the text.      *)
(***************************************************************************)
BlockBytes(b) == {b * BLOCK_SIZE + k : k \in 0 .. BLOCK_SIZE - 1}
WriteStaysInOwnBlocks ==
    fs.halted = "no" =>
       \A desc \in DESCS, texte \in Texts :
          Opened(fs, desc) =>
             LET i == fs.opened_file[desc].inode
                 T == WriteFile(fs, desc, texte, NoGarbage).st
             IN  T.halted = "no" =>
                    \A b \in BLOCKS :
                       (/\ ~Lists(T, i, b)
                        /\ \/ T.free_blocks[b] = 0
                           \/ \E j \in NonFree(T) \ {i} : Lists(T, j, b))
                       => \A p \in BlockBytes(b) : T.disk[p] = fs.disk[p]

(***************************************************************************)
(* C33.  Every open-file slot that open_file has filled (inode 0, the      *)
(* root, is never opened: a slot that names it was never reset) refers to  *)
(* an inode that is not free and whose type is file or symbolic link: no   *)
(* delete leaves a descriptor on a freed inode.                            *)
(***************************************************************************)
OpenSlotsNameLiveFiles ==
    fs.halted = "no" =>
       \A d \in DESCS :
          LET i == fs.opened_file[d].inode
          IN  i \notin {-1, 0}
              => i \in NonFree(fs) /\ fs.inodes[i].type \in {1, 2}

(***************************************************************************)
(* C34.  Every inode that is not free, the root apart, is named by an      *)
(* entry of the record of a directory that a path from the root reaches.   *)
(***************************************************************************)
AllocatedInodesReachable ==
    fs.halted = "no" =>
       \A i \in NonFree(fs) \ {0} :
          \E d \in ReachableFromRoot(fs) \cap LiveDirs(fs), e \in ENTRIES :
             fs.directories[d][e].inode_index = i

(***************************************************************************)
(* C35.  Every directory inode j other than the root is named by exactly   *)
(* one directory entry, which lies in the record of inode_rep_parent(j);   *)
(* so for every directory c and every entry n of c that names a            *)
(* directory, get_inode_from_path("n/..", c) is c.                         *)
(***************************************************************************)
OneParentEntry(S) ==
    /\ \A j \in LiveDirs(S) \ {0} :
          /\ Cardinality(EntriesOf(S, j)) = 1
          /\ \A de \in EntriesOf(S, j) : de[1] = S.inodes[j].inode_rep_parent
    /\ \A c \in LiveDirs(S), e \in ENTRIES :
          LET n == S.directories[c][e]
          IN  (n.inode_index \in LiveDirs(S))
              => GetInodeFromPath(S, [abs |-> FALSE, toks |-> <<n.filename, "..">>],
                                  c, NoGarbage) = c
\* Where it holds, each of the four calls keeps it.
DirectoryHasOneParentEntry ==
    (fs.halted = "no" /\ OneParentEntry(fs)) =>
       \A N \in ShortNames, N2 \in ShortNames, D1 \in LiveDirs(fs), D2 \in LiveDirs(fs) :
          /\ OneParentEntry(CreateDirectory(fs, N, D1).st)
          /\ OneParentEntry(MoveDirectory(fs, N, D1, D2).st)
          /\ LET r == CopyDirectory(fs, N, N2, D1, D2, NoGarbage)
             IN  r.st.halted = "no" => OneParentEntry(r.st)
          /\ OneParentEntry(CreateHardLink(fs, N2, N, D1, D2).st)

(***************************************************************************)
(* C36.  No record of a directory that is not free holds two entries in    *)
(* use with the same filename: a call that would add a name the            *)
(* destination already has is refused, whatever the name.                  *)
(***************************************************************************)
NamesUniqueInDirectory ==
    \A d \in LiveDirs(fs), e1 \in ENTRIES, e2 \in ENTRIES :
       (/\ e1 /= e2
        /\ fs.directories[d][e1].inode_index /= -1
        /\ fs.directories[d][e2].inode_index /= -1)
       => fs.directories[d][e1].filename /= fs.directories[d][e2].filename

(***************************************************************************)
(* C37.  delete_directory returns in every reachable state: its recursion  *)
(* over the entries of a directory never goes on without end, also when a  *)
(* directory has a hard link or has been moved into itself.                *)
(***************************************************************************)
DeleteDirectoryReturns ==
    probe.tag = "delete_directory" => fs.halted /= "stack_overflow"

(***************************************************************************)
(* C38.  Whenever the shell waits for the next command, no open-file slot  *)
(* is held by a descriptor that a command opened (a slot that names inode  *)
(* 0, the root, was never reset: no command opens a directory): each       *)
(* command has closed what it opened.                                      *)
(***************************************************************************)
PromptHasNoOpenFile ==
    (plan = "shell" /\ fs.halted = "no")
    => \A d \in DESCS : fs.opened_file[d].inode \in {-1, 0}

(***************************************************************************)
(* C39.  Where copy_file succeeds on a source file of size s and the block *)
(* it allocates for the copy holds only zero bytes, the inode of the copy  *)
(* has size s, and the size of the destination directory and of each of    *)
(* its ancestors has grown by s.                                           *)
(***************************************************************************)
RECURSIVE AncestorsOf(_, _, _)
AncestorsOf(S, d, fuel) ==
    IF d = 0 \/ fuel = 0 \/ d \notin INODES THEN {0}
    ELSE {d} \cup AncestorsOf(S, S.inodes[d].inode_rep_parent, fuel - 1)
CopyHasSourceSize ==
    fs.halted = "no" =>
       \A N \in ShortNames, N2 \in ShortNames, D1 \in LiveDirs(fs), D2 \in LiveDirs(fs) :
          LET src == RechInode(N, fs.directories[D1])
              free == FreeBlockSet(fs.free_blocks)
              r == CopyFile(fs, N, N2, D1, D2, NoGarbage)
          IN  (/\ src \in NonFree(fs)
               /\ fs.inodes[src].type = 1
               /\ fs.inodes[src].size >= 0
               /\ free /= {}
               /\ \A p \in BlockBytes(Lowest(free)) : fs.disk[p] = NUL
               /\ r.ret /= -1
               /\ r.st.halted = "no")
              => /\ r.st.inodes[r.ret].size = fs.inodes[src].size
                 /\ \A d \in AncestorsOf(fs, D2, NUM_INODES) :
                       r.st.inodes[d].size = fs.inodes[d].size + fs.inodes[src].size

(***************************************************************************)
(* C40.  get_inode_from_path returns -1 for every path whose first         *)
(* component names, in the directory the walk starts from, an inode that   *)
(* is not a directory, and that goes on with a second component: a name,   *)
(* "." or "..".                                                            *)
(***************************************************************************)
PathThroughFileIsRefused ==
    fs.halted = "no" =>
       \A c \in LiveDirs(fs), n \in ShortNames, m \in ShortNames \cup {".", ".."} :
          LET i == RechInode(n, fs.directories[c])
          IN  (i \in INODES /\ fs.inodes[i].type /= 0)
              => GetInodeFromPath(fs, [abs |-> FALSE, toks |-> <<n, m>>], c,
                                  NoGarbage) = -1

====
